---- MODULE Spec2Model ----
(***************************************************************************)
(* Model of the constraint-based group distribution engine of wesplit      *)
(* (lib/distributionAlgorithms.ts): the penalty model, the mandatory       *)
(* pre-check, the placement loop, the greedy fill, the swap optimizer and  *)
(* the constraint satisfaction checker.                                    *)
(*                                                                         *)
(* Numbers: JavaScript doubles are modelled as exact rationals <<n, d>>    *)
(* with d > 0, kept in lowest terms.                                       *)
(***************************************************************************)
EXTENDS Integers, Sequences, FiniteSets

(***************************************************************************)
(* Bounds of the model.                                                    *)
(***************************************************************************)
MaxElements == 3
MaxGroups == 2
MaxAttemptsBound == 2
MaxSwapsBound == 3

(***************************************************************************)
(* Rationals.                                                              *)
(***************************************************************************)
(* Each operator binds its operands once (x \in {a}), so an operand that   *)
(* is itself a long computation is evaluated a single time.                *)
Only(S) == CHOOSE x \in S : TRUE

RECURSIVE Gcd(_, _)
Gcd(a, b) == Only({IF y = 0 THEN x ELSE Gcd(y, x % y) : x \in {a}, y \in {b}})

IAbs(a) == Only({IF x < 0 THEN -x ELSE x : x \in {a}})

Rat(n, d) ==
  Only({Only({<<(s * x) \div g, (s * y) \div g>> :
                g \in {Gcd(IAbs(x), IAbs(y))}, s \in {IF y < 0 THEN -1 ELSE 1}}) :
        x \in {n}, y \in {d}})

RZero == <<0, 1>>
ROne == <<1, 1>>
RInt(k) == <<k, 1>>
RAdd(a, b) == Only({Rat(x[1] * y[2] + y[1] * x[2], x[2] * y[2]) : x \in {a}, y \in {b}})
RSub(a, b) == Only({Rat(x[1] * y[2] - y[1] * x[2], x[2] * y[2]) : x \in {a}, y \in {b}})
RMul(a, b) == Only({Rat(x[1] * y[1], x[2] * y[2]) : x \in {a}, y \in {b}})
RDiv(a, b) == Only({Rat(x[1] * y[2], x[2] * y[1]) : x \in {a}, y \in {b}})
RLess(a, b) == \E x \in {a}, y \in {b} : x[1] * y[2] < y[1] * x[2]
RLeq(a, b) == \E x \in {a}, y \in {b} : x[1] * y[2] <= y[1] * x[2]
RAbs(a) == Only({<<IAbs(x[1]), x[2]>> : x \in {a}})
RMax(a, b) == Only({IF RLess(x, y) THEN y ELSE x : x \in {a}, y \in {b}})

RECURSIVE RSumSeq(_)
RSumSeq(s) == IF s = <<>> THEN RZero ELSE RAdd(s[1], RSumSeq(Tail(s)))

RECURSIVE RMaxSeq(_)
RMaxSeq(s) ==
  IF Len(s) = 1 THEN s[1] ELSE RMax(s[1], RMaxSeq(Tail(s)))

RECURSIVE ISumSeq(_)
ISumSeq(s) == IF s = <<>> THEN 0 ELSE s[1] + ISumSeq(Tail(s))

RECURSIVE IMaxSeq(_)
IMaxSeq(s) ==
  IF s = <<>> THEN 0
  ELSE LET m == IMaxSeq(Tail(s)) IN IF Len(s) = 1 \/ s[1] > m THEN s[1] ELSE m

RECURSIVE ISumSet(_, _)
ISumSet(f, S) ==
  IF S = {} THEN 0
  ELSE LET x == CHOOSE y \in S : TRUE IN f[x] + ISumSet(f, S \ {x})

RECURSIVE RSumSet(_, _)
RSumSet(f, S) ==
  IF S = {} THEN RZero
  ELSE LET x == CHOOSE y \in S : TRUE IN RAdd(f[x], RSumSet(f, S \ {x}))

IMaxSet(S) == IF S = {} THEN 0 ELSE CHOOSE m \in S : \A y \in S : y <= m

(***************************************************************************)
(* Attribute values: string | number | boolean, or undefined (no key).     *)
(***************************************************************************)
Undef == [t |-> "undefined", s |-> "undefined", n |-> 0]
Str(x) == [t |-> "string", s |-> x, n |-> 0]
Bool(b) == [t |-> "boolean", s |-> IF b THEN "true" ELSE "false", n |-> 0]
Num(k) == [t |-> "number", s |-> "", n |-> k]

Digits == <<"0", "1", "2", "3", "4", "5", "6", "7", "8", "9">>

\* String(v)
StringOf(v) == IF v.t = "number" THEN Digits[v.n + 1] ELSE v.s

\* v !== undefined
Defined(v) == v.t # "undefined"

\* JavaScript truthiness: '', false, 0 and undefined are falsy
Truthy(v) ==
  \/ v.t = "string" /\ v.s # ""
  \/ v.t = "boolean" /\ v.s = "true"
  \/ v.t = "number" /\ v.n # 0

\* v !== undefined && v !== null && v !== ''
Present(v) == v.t # "undefined" /\ ~(v.t = "string" /\ v.s = "")

AttrIds == {"team", "conflict", "gender", "score"}

NoElement == [id |-> 0, attributes |-> [a \in AttrIds |-> Undef]]

\* elements.find((e) => e.id === memberId); NoElement when there is none
FindElement(elements, memberId) ==
  LET S == {i \in DOMAIN elements : elements[i].id = memberId}
  IN  IF S = {} THEN NoElement ELSE elements[CHOOSE i \in S : \A j \in S : i <= j]

HasElement(elements, memberId) == \E i \in DOMAIN elements : elements[i].id = memberId

\* element?.attributes[attributeId], undefined for an unknown member
ValueOf(elements, memberId, attributeId) ==
  IF attributeId \in AttrIds
  THEN FindElement(elements, memberId).attributes[attributeId]
  ELSE Undef

\* attributes.find((a) => a.id === attributeId) is defined
FindAttribute(attributes, attributeId) == attributeId \in attributes

\* number of positions of a member list whose member satisfies P
CountMembers(members, P(_)) == Cardinality({i \in DOMAIN members : P(members[i])})

(***************************************************************************)
(* Constraints.  A constraint is a record whose fields depend on its type: *)
(*   enum:       type, attributeId, mode, mandatory, allowedDivergence     *)
(*   number:     type, attributeId, balanceAverage, allowedDivergence      *)
(*   attractive: type, attributeId, mandatory                              *)
(*   repulsive:  type, attributeId, mandatory                              *)
(*   default:    type, balanceGroupSizes, allowedDivergence                *)
(***************************************************************************)
EnumConstraint(a, mode, mandatory, div) ==
  [type |-> "enum", attributeId |-> a, mode |-> mode, mandatory |-> mandatory,
   allowedDivergence |-> div]
NumberConstraint(a, div) ==
  [type |-> "number", attributeId |-> a, balanceAverage |-> TRUE,
   allowedDivergence |-> div]
AttractiveConstraint(a, mandatory) ==
  [type |-> "attractive", attributeId |-> a, mandatory |-> mandatory]
RepulsiveConstraint(a, mandatory) ==
  [type |-> "repulsive", attributeId |-> a, mandatory |-> mandatory]
DefaultConstraint(div) ==
  [type |-> "default", balanceGroupSizes |-> TRUE, allowedDivergence |-> div]

\* constraint.allowedDivergence ?? 0.2
DefaultDivergence == <<1, 5>>
TargetDivergence(c) ==
  IF "allowedDivergence" \in DOMAIN c THEN c.allowedDivergence ELSE DefaultDivergence

\* 1 - allowedDivergence, or the default importance 0.8
DefaultImportance == <<4, 5>>
Importance(c) ==
  IF "allowedDivergence" \in DOMAIN c
  THEN RSub(ROne, c.allowedDivergence)
  ELSE DefaultImportance

\* Only consider non-mandatory constraints
\* (mutation: the filter keeps every constraint)
IsNonMandatoryKeepsAll(c) == TRUE
IsNonMandatory(c) == c.type \in {"number", "default"} \/ ~c.mandatory

(***************************************************************************)
(* calculateEnumDistribution: per group, the count of every truthy value.  *)
(***************************************************************************)
EnumValuesInGroup(members, elements, attributeId) ==
  {ValueOf(elements, members[i], attributeId) :
     i \in {j \in DOMAIN members :
              /\ HasElement(elements, members[j])
              /\ Truthy(ValueOf(elements, members[j], attributeId))}}

EnumCount(members, elements, attributeId, value) ==
  Cardinality({i \in DOMAIN members :
                 /\ HasElement(elements, members[i])
                 /\ Truthy(ValueOf(elements, members[i], attributeId))
                 /\ ValueOf(elements, members[i], attributeId) = value})

EnumAllValues(groups, elements, attributeId) ==
  UNION {EnumValuesInGroup(groups[g], elements, attributeId) : g \in DOMAIN groups}

(***************************************************************************)
(* calculateNumericAverages: per group, the mean of its numeric values.    *)
(***************************************************************************)
NumericAverage(members, elements, attributeId) ==
  LET idx == {i \in DOMAIN members :
                /\ HasElement(elements, members[i])
                /\ ValueOf(elements, members[i], attributeId).t = "number"}
      val == [i \in idx |-> ValueOf(elements, members[i], attributeId).n]
  IN  IF idx = {} THEN RZero ELSE Rat(ISumSet(val, idx), Cardinality(idx))

\* max |x - mean| / mean over a sequence of rationals, for mean > 0
DivergenceOf(xs, mean) ==
  RDiv(RMaxSeq([i \in DOMAIN xs |-> RAbs(RSub(xs[i], mean))]), mean)

(***************************************************************************)
(* calculateGlobalPenalty, one branch per constraint type.                 *)
(***************************************************************************)
\* enum, mode balance: sum over the observed values of max(0, actual - target)
EnumBalancePenalty(c, groups, elements) ==
  LET vals == EnumAllValues(groups, elements, c.attributeId)
      pen == [v \in vals |->
                LET counts == [g \in DOMAIN groups |->
                                 RInt(EnumCount(groups[g], elements, c.attributeId, v))]
                    mean == RDiv(RSumSeq(counts), RInt(Len(counts)))
                IN  IF RLess(RZero, mean)
                    THEN RMax(RZero, RSub(DivergenceOf(counts, mean), TargetDivergence(c)))
                    ELSE RZero]
  IN  RSumSet(pen, vals)

\* members of a group carrying a truthy value (membersWithValue)
MembersWithValue(members, elements, attributeId) ==
  {i \in DOMAIN members :
     /\ HasElement(elements, members[i])
     /\ Truthy(ValueOf(elements, members[i], attributeId))}

\* minority members of a group holding more than one distinct value
ExcludeIntruders(members, elements, attributeId) ==
  LET vals == EnumValuesInGroup(members, elements, attributeId)
      with == MembersWithValue(members, elements, attributeId)
      maxCount == IMaxSet({EnumCount(members, elements, attributeId, v) : v \in vals})
  IN  IF Cardinality(vals) > 1 THEN Cardinality(with) - maxCount ELSE 0

\* enum, mode exclude: intruders / members carrying the attribute
EnumExcludePenalty(c, groups, elements) ==
  LET intr == [g \in DOMAIN groups |-> ExcludeIntruders(groups[g], elements, c.attributeId)]
      tot == [g \in DOMAIN groups |->
                Cardinality(MembersWithValue(groups[g], elements, c.attributeId))]
      intruderCount == ISumSeq(intr)
      totalWithAttribute == ISumSeq(tot)
  IN  IF totalWithAttribute > 0 THEN Rat(intruderCount, totalWithAttribute) ELSE RZero

\* number with balanceAverage
NumberPenalty(c, groups, elements) ==
  LET avgArray == [g \in DOMAIN groups |-> NumericAverage(groups[g], elements, c.attributeId)]
  IN  IF Len(avgArray) > 0
      THEN LET mean == RDiv(RSumSeq(avgArray), RInt(Len(avgArray)))
           IN  IF RLess(RZero, mean)
               THEN RMax(RZero, RSub(DivergenceOf(avgArray, mean), TargetDivergence(c)))
               ELSE RZero
      ELSE RZero

\* the String() of the present values of a member list
PresentStrings(members, elements, attributeId) ==
  {StringOf(ValueOf(elements, members[i], attributeId)) :
     i \in {j \in DOMAIN members :
              /\ HasElement(elements, members[j])
              /\ Present(ValueOf(elements, members[j], attributeId))}}

\* elements.filter(value present).length
TotalWithAttribute(elements, attributeId) ==
  Cardinality({i \in DOMAIN elements :
                 attributeId \in AttrIds /\ Present(elements[i].attributes[attributeId])})

\* valueToGroups.get(value): the groups holding a present value
GroupsOfValue(groups, elements, attributeId, value) ==
  {g \in DOMAIN groups : value \in PresentStrings(groups[g], elements, attributeId)}

\* members of a group whose String(value) equals value (undefined included)
StringCount(members, elements, attributeId, value) ==
  Cardinality({i \in DOMAIN members :
                 /\ HasElement(elements, members[i])
                 /\ StringOf(ValueOf(elements, members[i], attributeId)) = value})

\* (mutation: a split value is not penalised)
AttractivePenaltyNone(c, groups, elements) == RZero

\* attractive: for a value in several groups, all but its largest group intrude
AttractivePenalty(c, groups, elements) ==
  LET vals == UNION {PresentStrings(groups[g], elements, c.attributeId) : g \in DOMAIN groups}
      split == {v \in vals : Cardinality(GroupsOfValue(groups, elements, c.attributeId, v)) > 1}
      intr == [v \in split |->
                 LET cnt == [g \in DOMAIN groups |->
                               StringCount(groups[g], elements, c.attributeId, v)]
                 IN  ISumSeq(cnt) - IMaxSeq(cnt)]
      intruderCount == ISumSet(intr, split)
      totalWithAttribute == TotalWithAttribute(elements, c.attributeId)
  IN  IF totalWithAttribute > 0 THEN Rat(intruderCount, totalWithAttribute) ELSE RZero

\* members of a group whose present value has String() value
PresentCount(members, elements, attributeId, value) ==
  Cardinality({i \in DOMAIN members :
                 /\ HasElement(elements, members[i])
                 /\ Present(ValueOf(elements, members[i], attributeId))
                 /\ StringOf(ValueOf(elements, members[i], attributeId)) = value})

\* repulsive: a value occurring k > 1 times in a group gives k - 1 intruders
RepulsivePenalty(c, groups, elements) ==
  LET intr == [g \in DOMAIN groups |->
                 LET vals == PresentStrings(groups[g], elements, c.attributeId)
                     extra == [v \in vals |->
                                 PresentCount(groups[g], elements, c.attributeId, v) - 1]
                 IN  ISumSet(extra, vals)]
      intruderCount == ISumSeq(intr)
      totalWithAttribute == TotalWithAttribute(elements, c.attributeId)
  IN  IF totalWithAttribute > 0 THEN Rat(intruderCount, totalWithAttribute) ELSE RZero

\* max |size - ideal| / ideal of a grouping with at least one member
SizeDivergence(groups) ==
  LET groupSizes == [g \in DOMAIN groups |-> RInt(Len(groups[g]))]
      idealSize == RDiv(RSumSeq(groupSizes), RInt(Len(groups)))
  IN  IF RLess(RZero, idealSize) THEN DivergenceOf(groupSizes, idealSize) ELSE RZero

TotalMembers(groups) == ISumSeq([g \in DOMAIN groups |-> Len(groups[g])])

\* (mutation: the difference to the target is not cut off at 0)
DefaultPenaltyUnclamped(c, groups) ==
  RSub(SizeDivergence(groups), TargetDivergence(c))

\* default with balanceGroupSizes
DefaultPenalty(c, groups) ==
  IF TotalMembers(groups) > 0
  THEN RMax(RZero, RSub(SizeDivergence(groups), TargetDivergence(c)))
  ELSE RZero

\* attributePenalty of one non-mandatory constraint
AttributePenalty(c, groups, elements) ==
  IF c.type = "enum" THEN
    IF c.mode = "balance" THEN EnumBalancePenalty(c, groups, elements)
    ELSE IF c.mode = "exclude" THEN EnumExcludePenalty(c, groups, elements)
    ELSE RZero
  ELSE IF c.type = "number" /\ c.balanceAverage THEN NumberPenalty(c, groups, elements)
  ELSE IF c.type = "attractive" THEN AttractivePenalty(c, groups, elements)
  ELSE IF c.type = "repulsive" THEN RepulsivePenalty(c, groups, elements)
  ELSE IF c.type = "default" /\ c.balanceGroupSizes THEN DefaultPenalty(c, groups)
  ELSE RZero

\* the contribution of constraint c to the global penalty
WeightedPenalty(c, groups, elements, attributes) ==
  IF ~IsNonMandatory(c) THEN RZero
  ELSE IF c.type # "default" /\ ~FindAttribute(attributes, c.attributeId) THEN RZero
  ELSE RMul(AttributePenalty(c, groups, elements), Importance(c))

calculateGlobalPenalty(groups, elements, constraints, attributes) ==
  RSumSeq([i \in DOMAIN constraints |->
             WeightedPenalty(constraints[i], groups, elements, attributes)])

(***************************************************************************)
(* The divergence scale (lib/utils.ts).                                    *)
(***************************************************************************)
\* DIVERGENCE_LEVELS in DIVERGENCE_LEVEL_ORDER: the value of index 0 .. 4
DIVERGENCE_LEVELS == <<<<1, 10>>, <<1, 4>>, <<1, 2>>, <<3, 4>>, <<9, 10>>>>

RECURSIVE ClosestLevel(_, _, _, _)
\* the scan of divergenceValueToLevel from position k on
ClosestLevel(value, k, closest, minDiff) ==
  IF k > Len(DIVERGENCE_LEVELS) THEN closest
  ELSE LET diff == RAbs(RSub(DIVERGENCE_LEVELS[k], value))
       IN  IF RLess(diff, minDiff)
           THEN ClosestLevel(value, k + 1, k, diff)
           ELSE ClosestLevel(value, k + 1, closest, minDiff)

\* (mutation: of two levels equally near the later one wins)
divergenceValueToLevelLater(value) ==
  CHOOSE k \in 0..4 :
    \A j \in 0..4 :
      /\ RLeq(RAbs(RSub(DIVERGENCE_LEVELS[k + 1], value)),
              RAbs(RSub(DIVERGENCE_LEVELS[j + 1], value)))
      /\ j > k => RLess(RAbs(RSub(DIVERGENCE_LEVELS[k + 1], value)),
                        RAbs(RSub(DIVERGENCE_LEVELS[j + 1], value)))

\* the index (0 .. 4) of the level nearest to value
divergenceValueToLevel(value) ==
  ClosestLevel(value, 1, 1, RAbs(RSub(DIVERGENCE_LEVELS[1], value))) - 1

divergenceLevelToValue(level) == DIVERGENCE_LEVELS[level + 1]

(***************************************************************************)
(* checkConstraintSatisfaction: the issues of every constraint.            *)
(***************************************************************************)
\* Epsilon = half the distance to the next level
Epsilon == <<1, 8>>

EnumBalanceIssues(c, groups, elements) ==
  LET vals == EnumAllValues(groups, elements, c.attributeId)
      bad(v) ==
        LET counts == [g \in DOMAIN groups |->
                         RInt(EnumCount(groups[g], elements, c.attributeId, v))]
            mean == RDiv(RSumSeq(counts), RInt(Len(counts)))
        IN  /\ RLess(RZero, mean)
            /\ RLess(RAdd(TargetDivergence(c), Epsilon), DivergenceOf(counts, mean))
  IN  {[kind |-> "notEvenlyDistributed", value |-> v.s, group |-> 0] : v \in {w \in vals : bad(w)}}

EnumExcludeIssues(c, groups, elements) ==
  {[kind |-> "multipleValues", value |-> "", group |-> g] :
     g \in {h \in DOMAIN groups :
              Cardinality(EnumValuesInGroup(groups[h], elements, c.attributeId)) > 1}}

NumberIssues(c, groups, elements) ==
  LET avgArray == [g \in DOMAIN groups |-> NumericAverage(groups[g], elements, c.attributeId)]
      mean == RDiv(RSumSeq(avgArray), RInt(Len(avgArray)))
  IN  IF /\ Len(avgArray) > 0
         /\ RLess(RZero, mean)
         /\ RLess(RAdd(TargetDivergence(c), Epsilon), DivergenceOf(avgArray, mean))
      THEN {[kind |-> "averagesNotBalanced", value |-> "", group |-> 0]}
      ELSE {}

\* (mutation: the checker reports no split value)
AttractiveIssuesNone(c, groups, elements) == {}

AttractiveIssues(c, groups, elements) ==
  LET vals == UNION {PresentStrings(groups[g], elements, c.attributeId) : g \in DOMAIN groups}
  IN  {[kind |-> "spreadAcrossGroups", value |-> v, group |-> 0] :
         v \in {w \in vals :
                  Cardinality(GroupsOfValue(groups, elements, c.attributeId, w)) > 1}}

\* the String() of the truthy values of a member list
TruthyStrings(members, elements, attributeId) ==
  {StringOf(ValueOf(elements, members[i], attributeId)) :
     i \in {j \in DOMAIN members :
              /\ HasElement(elements, members[j])
              /\ Truthy(ValueOf(elements, members[j], attributeId))}}

TruthyCount(members, elements, attributeId, value) ==
  Cardinality({i \in DOMAIN members :
                 /\ HasElement(elements, members[i])
                 /\ Truthy(ValueOf(elements, members[i], attributeId))
                 /\ StringOf(ValueOf(elements, members[i], attributeId)) = value})

\* (mutation: the checker reports no repeated value)
RepulsiveIssuesNone(c, groups, elements) == {}

RepulsiveIssues(c, groups, elements) ==
  UNION {{[kind |-> "appearsSeveralTimes", value |-> v, group |-> g] :
            v \in {w \in TruthyStrings(groups[g], elements, c.attributeId) :
                     TruthyCount(groups[g], elements, c.attributeId, w) > 1}} :
         g \in DOMAIN groups}

\* (mutation: the issue is reported on the raw ratio alone)
DefaultIssuesRaw(c, groups) ==
  IF TotalMembers(groups) > 0 /\ RLess(TargetDivergence(c), SizeDivergence(groups))
  THEN {[kind |-> "sizesNotBalanced", value |-> "", group |-> 0]}
  ELSE {}

DefaultIssues(c, groups) ==
  IF TotalMembers(groups) > 0
  THEN LET allowedDivergence == TargetDivergence(c)
           actualDivergence == SizeDivergence(groups)
       IN  IF /\ RLess(allowedDivergence, actualDivergence)
              /\ divergenceValueToLevel(actualDivergence) #
                   divergenceValueToLevel(allowedDivergence)
           THEN {[kind |-> "sizesNotBalanced", value |-> "", group |-> 0]}
           ELSE {}
  ELSE {}

\* the issues one constraint pushes
ConstraintIssues(c, groups, elements, attributes) ==
  IF c.type = "enum" THEN
    IF ~FindAttribute(attributes, c.attributeId) THEN {}
    ELSE IF c.mode = "balance" THEN EnumBalanceIssues(c, groups, elements)
    ELSE IF c.mode = "exclude" THEN EnumExcludeIssues(c, groups, elements)
    ELSE {}
  ELSE IF c.type = "number" /\ c.balanceAverage THEN
    IF ~FindAttribute(attributes, c.attributeId) THEN {}
    ELSE NumberIssues(c, groups, elements)
  ELSE IF c.type = "attractive" THEN
    IF ~FindAttribute(attributes, c.attributeId) THEN {}
    ELSE AttractiveIssues(c, groups, elements)
  ELSE IF c.type = "repulsive" THEN
    IF ~FindAttribute(attributes, c.attributeId) THEN {}
    ELSE RepulsiveIssues(c, groups, elements)
  ELSE IF c.type = "default" /\ c.balanceGroupSizes THEN DefaultIssues(c, groups)
  ELSE {}

\* checkConstraintSatisfaction(...).satisfied
checkConstraintSatisfaction(groups, elements, constraints, attributes) ==
  \A i \in DOMAIN constraints :
    ConstraintIssues(constraints[i], groups, elements, attributes) = {}

(***************************************************************************)
(* validateMandatoryConstraints: the pre-check of the solver.              *)
(***************************************************************************)
\* the filter of validateMandatoryConstraints
IsValidatedMandatory(c) ==
  \/ c.type = "enum" /\ c.mandatory /\ c.mode = "exclude"
  \/ c.type = "attractive" /\ c.mandatory
  \/ c.type = "repulsive" /\ c.mandatory

\* String() of the values of the elements that have the key at all
DefinedStrings(elements, attributeId) ==
  {StringOf(elements[i].attributes[attributeId]) :
     i \in {j \in DOMAIN elements :
              attributeId \in AttrIds /\ Defined(elements[j].attributes[attributeId])}}

\* valueCounts.get(value)
DefinedCount(elements, attributeId, value) ==
  Cardinality({i \in DOMAIN elements :
                 /\ attributeId \in AttrIds
                 /\ Defined(elements[i].attributes[attributeId])
                 /\ StringOf(elements[i].attributes[attributeId]) = value})

\* (mutation: the first loop is skipped)
CountCheckNone(c, elements, groupCount, attributes) == "ok"

\* the first loop: the verdict of one constraint ("ok" when it passes)
CountCheck(c, elements, groupCount, attributes) ==
  IF ~FindAttribute(attributes, c.attributeId) THEN "ok"
  ELSE IF c.type = "enum" /\ c.mode = "exclude" THEN
    IF Cardinality(DefinedStrings(elements, c.attributeId)) > groupCount
    THEN "tooManyValues" ELSE "ok"
  ELSE IF c.type = "repulsive" THEN
    IF IMaxSet({DefinedCount(elements, c.attributeId, v) :
                  v \in DefinedStrings(elements, c.attributeId)}) > groupCount
    THEN "tooManyOccurrences" ELSE "ok"
  ELSE "ok"

\* the pairs {id1, id2} of elements sharing a String(value) for the attribute
SameValuePairs(elements, attributeId) ==
  {{elements[i].id, elements[j].id} :
     <<i, j>> \in {p \in (DOMAIN elements) \X (DOMAIN elements) :
                     /\ p[1] < p[2]
                     /\ attributeId \in AttrIds
                     /\ Defined(elements[p[1]].attributes[attributeId])
                     /\ Defined(elements[p[2]].attributes[attributeId])
                     /\ StringOf(elements[p[1]].attributes[attributeId]) =
                          StringOf(elements[p[2]].attributes[attributeId])}}

mustBeTogether(elements, mandatoryConstraints, attributes) ==
  UNION {SameValuePairs(elements, mandatoryConstraints[k].attributeId) :
           k \in {i \in DOMAIN mandatoryConstraints :
                    /\ FindAttribute(attributes, mandatoryConstraints[i].attributeId)
                    /\ mandatoryConstraints[i].type = "attractive"}}

mustBeApart(elements, mandatoryConstraints, attributes) ==
  UNION {SameValuePairs(elements, mandatoryConstraints[k].attributeId) :
           k \in {i \in DOMAIN mandatoryConstraints :
                    /\ FindAttribute(attributes, mandatoryConstraints[i].attributeId)
                    /\ \/ mandatoryConstraints[i].type = "repulsive"
                       \/ /\ mandatoryConstraints[i].type = "enum"
                          /\ mandatoryConstraints[i].mode = "exclude"}}

\* "ok" (null) or the kind of the error message returned
validateMandatoryConstraints(elements, groupCount, constraints, attributes) ==
  LET mandatoryConstraints == SelectSeq(constraints, IsValidatedMandatory)
      failing == {i \in DOMAIN mandatoryConstraints :
                    CountCheck(mandatoryConstraints[i], elements, groupCount, attributes) # "ok"}
  IN  IF mandatoryConstraints = <<>> THEN "ok"
      ELSE IF failing # {}
      THEN CountCheck(mandatoryConstraints[CHOOSE i \in failing : \A j \in failing : i <= j],
                      elements, groupCount, attributes)
      ELSE IF mustBeTogether(elements, mandatoryConstraints, attributes) \cap
                mustBeApart(elements, mandatoryConstraints, attributes) # {}
      THEN "conflict"
      ELSE "ok"

(***************************************************************************)
(* The solver's view of the input.                                         *)
(***************************************************************************)
\* the filter of generateInitialWithMandatoryConstraints and of performSwaps
IsMandatory(c) == c.type # "number" /\ c.type # "default" /\ c.mandatory

MandatoryConstraints(constraints) == SelectSeq(constraints, IsMandatory)

\* element.attributes[c.attributeId] !== undefined for some mandatory constraint
IsMandatoryElement(e, mandatoryConstraints) ==
  \E k \in DOMAIN mandatoryConstraints :
    /\ mandatoryConstraints[k].attributeId \in AttrIds
    /\ Defined(e.attributes[mandatoryConstraints[k].attributeId])

\* ids of the mandatory elements
MandatoryElements(elements, constraints) ==
  {elements[i].id : i \in {j \in DOMAIN elements :
      IsMandatoryElement(elements[j], MandatoryConstraints(constraints))}}

\* (mutation: the split hands every element to the greedy fill)
NonMandatoryElementsAll(elements, constraints) ==
  {elements[i].id : i \in DOMAIN elements}

\* ids of the non-mandatory (swappable) elements
NonMandatoryElements(elements, constraints) ==
  {elements[i].id : i \in {j \in DOMAIN elements :
      ~IsMandatoryElement(elements[j], MandatoryConstraints(constraints))}}

EmptyGroups(numGroups) == [g \in 1..numGroups |-> <<>>]

\* hypotheticalGroups: elementId appended to group groupIndex
WithMember(groups, groupIndex, elementId) ==
  [g \in DOMAIN groups |->
     IF g = groupIndex THEN Append(groups[g], elementId) ELSE groups[g]]

\* (mutation: every placement is accepted)
wouldViolateNever(elementId, groupIndex, groups, elements, mandatoryConstraints, attributes) ==
  FALSE

wouldViolateMandatoryConstraintsOnPlacement(elementId, groupIndex, groups, elements, mandatoryConstraints, attributes) ==
  ~checkConstraintSatisfaction(WithMember(groups, groupIndex, elementId), elements,
                               mandatoryConstraints, attributes)

(***************************************************************************)
(* State of one call of generateConstraintBasedDistribution, or of one     *)
(* call of performSwaps.                                                   *)
(***************************************************************************)
VARIABLES
  elements,       \* the elements passed in: a sequence of [id, attributes]
  constraints,    \* the constraints passed in
  attributes,     \* the ids of the attributes passed in
  groupCount,     \* the number of groups asked for
  maxAttempts,    \* the solver's attempt budget (100 in generate)
  pc,             \* "start", "place", "fill", "swap", "done" or "error"
  groups,         \* the members of each group (groups / updatedGroups / currentGroups)
  attempt,        \* the solver's loop counter: attempts that have failed
  toPlace,        \* mandatory elements of the current attempt not yet placed
  remaining,      \* remainingElements not yet placed by the greedy fill
  inputGroups,    \* the groups parameter of performSwaps
  numSwaps,       \* the numSwaps parameter of performSwaps
  swapAttempt,    \* the swap loop counter
  currentPenalty, \* currentPenalty of performSwaps
  retryable,      \* DistributionGenerationError.retryable once pc = "error"
  store,          \* the database: elements, attributes, session.attributes, distributions
  calls,          \* the calls of handleDragEnd / updateGroupMembership in flight
  handler,        \* the create or regenerate handler whose generation is running
  report,         \* the toast of the last handleDragEnd that finished
  ops,            \* the number of operations the user has started
  drawn           \* the first slot of a swap iteration whose second slot is re-drawn

vars == <<elements, constraints, attributes, groupCount, maxAttempts, pc, groups,
          attempt, toPlace, remaining, inputGroups, numSwaps, swapAttempt,
          currentPenalty, retryable, store, calls, handler, report, ops, drawn>>

app == <<store, calls, handler, report, ops>>

\* an empty database and no handler: the state of the application part in
\* the specifications of a single engine call
NoStore ==
  [elements |-> <<>>, attributes |-> {}, sessionAttributes |-> <<>>, retired |-> {},
   nextId |-> 1, distributions |-> <<>>]
NoHandler == [kind |-> "none", dist |-> 0]
NoReport == [kind |-> "none", dist |-> 0, element |-> 0, group |-> 0, warned |-> FALSE]
AppAtRest ==
  /\ store = NoStore
  /\ calls = {}
  /\ handler = NoHandler
  /\ report = NoReport
  /\ ops = 0

inputs == <<elements, constraints, attributes, groupCount, maxAttempts>>

ElementIds(els) == {els[i].id : i \in DOMAIN els}

\* the ids in the member lists of a grouping
MemberIds(gs) == UNION {{gs[g][m] : m \in DOMAIN gs[g]} : g \in DOMAIN gs}

IMin(a, b) == IF a < b THEN a ELSE b

\* Math.min(1000, elements.length * 10)
SwapCap == 1000
SwapsPerElement == 10
NumSwapsOf(els) == IMin(SwapCap, Len(els) * SwapsPerElement)

\* (mutation: the validation error is raised as retryable)
ValidationErrorRetryableTrue == TRUE

\* new DistributionGenerationError(validationError, false)
ValidationErrorRetryable == FALSE

\* new DistributionGenerationError("Unable to create distribution ...", true)
ExhaustedErrorRetryable == TRUE

\* (mutation: the loop gives up one attempt early)
AttemptsLeftShort(failed, max) == failed + 1 < max

\* (mutation: the loop retries whatever the attempt count)
AttemptsLeftAlways(failed, max) == max = max

\* the loop condition attempt < maxAttempts of the placement loop
AttemptsLeft(failed, max) == failed < max

(***************************************************************************)
(* generateConstraintBasedDistribution, entry: the empty cases, then the   *)
(* head of generateInitialWithMandatoryConstraints (filter, split,         *)
(* pre-check).                                                             *)
(***************************************************************************)
Start ==
  /\ UNCHANGED <<app, drawn>>
  /\ pc = "start"
  /\ IF Len(elements) = 0 \/ groupCount <= 0 THEN
       /\ pc' = "done"
       /\ groups' = <<>>
       /\ UNCHANGED <<toPlace, remaining, retryable>>
     ELSE IF MandatoryConstraints(constraints) = <<>> THEN
       /\ pc' = "fill"
       /\ groups' = EmptyGroups(groupCount)
       /\ remaining' = ElementIds(elements)
       /\ UNCHANGED <<toPlace, retryable>>
     ELSE IF validateMandatoryConstraints(elements, groupCount, constraints, attributes) # "ok" THEN
       /\ pc' = "error"
       /\ retryable' = ValidationErrorRetryable
       /\ UNCHANGED <<groups, toPlace, remaining>>
     ELSE
       /\ pc' = "place"
       /\ groups' = EmptyGroups(groupCount)
       /\ toPlace' = MandatoryElements(elements, constraints)
       /\ UNCHANGED <<remaining, retryable>>
  /\ UNCHANGED <<inputs, attempt, inputGroups, numSwaps, swapAttempt, currentPenalty>>

\* the groups that accept elementId in the current attempt
AcceptingGroups(elementId) ==
  {gi \in DOMAIN groups :
     ~wouldViolateMandatoryConstraintsOnPlacement(
        elementId, gi, groups, elements, MandatoryConstraints(constraints), attributes)}

(***************************************************************************)
(* One step of the placement loop: the next element of the shuffled order  *)
(* goes to the first group, in a shuffled order of the groups, that        *)
(* accepts it; without one the attempt is abandoned.                       *)
(***************************************************************************)
PlaceElement ==
  /\ UNCHANGED <<app, drawn>>
  /\ pc = "place"
  /\ IF toPlace = {} THEN
       \* allPlaced: return { groups, remainingElements: nonMandatoryElements }
       /\ pc' = "fill"
       /\ remaining' = NonMandatoryElements(elements, constraints)
       /\ UNCHANGED <<groups, attempt, toPlace, retryable>>
     ELSE
       \E e \in toPlace :
         IF AcceptingGroups(e) # {} THEN
           /\ \E gi \in AcceptingGroups(e) : groups' = WithMember(groups, gi, e)
           /\ toPlace' = toPlace \ {e}
           /\ UNCHANGED <<pc, attempt, remaining, retryable>>
         ELSE
           /\ attempt' = attempt + 1
           /\ IF AttemptsLeft(attempt + 1, maxAttempts) THEN
                /\ groups' = EmptyGroups(groupCount)
                /\ toPlace' = MandatoryElements(elements, constraints)
                /\ UNCHANGED <<pc, retryable>>
              ELSE
                /\ pc' = "error"
                /\ retryable' = ExhaustedErrorRetryable
                /\ UNCHANGED <<groups, toPlace>>
           /\ UNCHANGED remaining
  /\ UNCHANGED <<inputs, inputGroups, numSwaps, swapAttempt, currentPenalty>>

\* the penalty of the grouping with elementId added to group gi
PenaltyWith(gi, elementId) ==
  calculateGlobalPenalty(WithMember(groups, gi, elementId), elements, constraints, attributes)

\* (mutation: the fill puts every element into the first group)
BestGroupIndexFirst(elementId) == 1

\* (mutation: among groups of equal penalty the fill takes the last one)
BestGroupIndexLast(elementId) ==
  CHOOSE gi \in DOMAIN groups :
    \A gj \in DOMAIN groups :
      /\ RLeq(PenaltyWith(gi, elementId), PenaltyWith(gj, elementId))
      /\ gj > gi => RLess(PenaltyWith(gi, elementId), PenaltyWith(gj, elementId))

\* bestGroupIndex: the lowest penalty, the lowest index among equals
BestGroupIndex(elementId) ==
  CHOOSE gi \in DOMAIN groups :
    \A gj \in DOMAIN groups :
      /\ RLeq(PenaltyWith(gi, elementId), PenaltyWith(gj, elementId))
      /\ gj < gi => RLess(PenaltyWith(gi, elementId), PenaltyWith(gj, elementId))

\* the next element of shuffledElements: any remaining one.  Elements with
\* the same attribute values are interchangeable, so of those the one with
\* the least id stands for all.
Representatives(ids) ==
  {id \in ids :
     \A other \in ids :
       FindElement(elements, other).attributes = FindElement(elements, id).attributes
         => id <= other}

(***************************************************************************)
(* generateInitialWithoutMandatoryConstraints, one element of the shuffled *)
(* order; after the last one generate calls performSwaps.                  *)
(***************************************************************************)
FillElement ==
  /\ UNCHANGED <<app, drawn>>
  /\ pc = "fill"
  /\ IF remaining = {} THEN
       /\ pc' = "swap"
       /\ inputGroups' = groups
       /\ numSwaps' = NumSwapsOf(elements)
       /\ swapAttempt' = 0
       /\ currentPenalty' = calculateGlobalPenalty(groups, elements, constraints, attributes)
       /\ UNCHANGED <<groups, remaining>>
     ELSE
       /\ \E e \in Representatives(remaining) :
            /\ groups' = WithMember(groups, BestGroupIndex(e), e)
            /\ remaining' = remaining \ {e}
       /\ UNCHANGED <<pc, inputGroups, numSwaps, swapAttempt, currentPenalty>>
  /\ UNCHANGED <<inputs, attempt, toPlace, retryable>>

\* (mutation: every member is swappable)
SwappablePositionsAll(gs) ==
  UNION {{<<g, m>> : m \in DOMAIN gs[g]} : g \in DOMAIN gs}

\* swappablePositions: <<groupIndex, memberIndex>> of the swappable members
SwappablePositions(gs) ==
  {p \in UNION {{<<g, m>> : m \in DOMAIN gs[g]} : g \in DOMAIN gs} :
     gs[p[1]][p[2]] \in NonMandatoryElements(elements, constraints)}

\* newGroups: the members at pos1 and pos2 exchanged
Swapped(gs, pos1, pos2) ==
  [g \in DOMAIN gs |->
     [m \in DOMAIN gs[g] |->
        IF <<g, m>> = pos1 THEN gs[pos2[1]][pos2[2]]
        ELSE IF <<g, m>> = pos2 THEN gs[pos1[1]][pos1[2]]
        ELSE gs[g][m]]]

\* the swap is kept: no mandatory constraint broken and the penalty lower
\* (mutation: a swap of equal or higher penalty is kept too)
SwapKeptAlways(newGroups) ==
  \/ MandatoryConstraints(constraints) = <<>>
  \/ checkConstraintSatisfaction(newGroups, elements, MandatoryConstraints(constraints),
                                 attributes)

\* (mutation: a swap of equal penalty is kept too)
SwapKeptOnTie(newGroups) ==
  /\ \/ MandatoryConstraints(constraints) = <<>>
     \/ checkConstraintSatisfaction(newGroups, elements, MandatoryConstraints(constraints),
                                    attributes)
  /\ RLeq(calculateGlobalPenalty(newGroups, elements, constraints, attributes),
          currentPenalty)

SwapKept(newGroups) ==
  /\ \/ MandatoryConstraints(constraints) = <<>>
     \/ checkConstraintSatisfaction(newGroups, elements, MandatoryConstraints(constraints),
                                    attributes)
  /\ RLess(calculateGlobalPenalty(newGroups, elements, constraints, attributes),
           currentPenalty)

\* the body of an iteration once two different slots are drawn: slots of
\* one group are skipped, a swap is kept or dropped
TrySwap(pos1, pos2) ==
  /\ swapAttempt' = swapAttempt + 1
  /\ IF pos1[1] # pos2[1] /\ SwapKept(Swapped(groups, pos1, pos2)) THEN
       /\ groups' = Swapped(groups, pos1, pos2)
       /\ currentPenalty' =
            calculateGlobalPenalty(Swapped(groups, pos1, pos2), elements,
                                   constraints, attributes)
     ELSE UNCHANGED <<groups, currentPenalty>>

(***************************************************************************)
(* performSwaps, one iteration of the loop (or its end).                   *)
(***************************************************************************)
SwapIteration ==
  /\ UNCHANGED <<app, drawn>>
  /\ pc = "swap"
  /\ IF swapAttempt >= numSwaps \/ Cardinality(SwappablePositions(groups)) < 2 THEN
       /\ pc' = "done"
       /\ UNCHANGED <<groups, swapAttempt, currentPenalty>>
     ELSE
       \E pos1 \in SwappablePositions(groups) :
         \E pos2 \in SwappablePositions(groups) \ {pos1} :
           /\ TrySwap(pos1, pos2)
           /\ UNCHANGED pc
  /\ UNCHANGED <<inputs, attempt, toPlace, remaining, inputGroups, numSwaps, retryable>>

(***************************************************************************)
(* Inputs.  The values an element may hold per attribute: none, a falsy    *)
(* one (an unticked checkbox) and a truthy one for the attractive and the  *)
(* repulsive attribute, two options for the enum attribute, two numbers    *)
(* for the number attribute.                                               *)
(***************************************************************************)
ValueChoices ==
  [team |-> <<Undef, Bool(FALSE), Str("A")>>,
   conflict |-> <<Undef, Bool(FALSE), Str("X")>>,
   gender |-> <<Undef, Str("M"), Str("F")>>,
   score |-> <<Undef, Num(1), Num(3)>>]

\* the attribute ids the constraints refer to
ConstrainedAttrs(cs) ==
  {cs[i].attributeId : i \in {j \in DOMAIN cs : cs[j].type # "default"}}

\* the attribute ids the mandatory constraints refer to
MandatoryAttrs(cs) == ConstrainedAttrs(MandatoryConstraints(cs))

\* the positions of ValueChoices an element may take under attribute a: none
\* without a constraint on a, all under a mandatory one, two under an optimize one
ChoiceIndices(cs, a) ==
  IF a \notin ConstrainedAttrs(cs) THEN {1}
  ELSE IF a \in MandatoryAttrs(cs) THEN {1, 2, 3}
  ELSE IF a \in {"team", "conflict"} THEN {1, 3}
  ELSE {2, 3}

\* the attribute maps of the elements of a request with constraints cs
AttrMaps(cs) ==
  {m \in [AttrIds -> UNION {{ValueChoices[a][k] : k \in 1..3} : a \in AttrIds}] :
     \A a \in AttrIds : \E k \in ChoiceIndices(cs, a) : m[a] = ValueChoices[a][k]}

\* the rank of an attribute map, to list elements up to their order
RankOf(m) ==
  LET digit(a) == (CHOOSE k \in 1..3 : ValueChoices[a][k] = m[a]) - 1
  IN  digit("team") + 3 * digit("conflict") + 9 * digit("gender") + 27 * digit("score")

\* the element lists of length n over the maps, ids 1 .. n, up to the order of
\* the list (the engine shuffles, counts or filters the list, never indexes it)
ElementLists(n, maps) ==
  {[i \in 1..n |-> [id |-> i, attributes |-> f[i]]] :
     f \in {h \in [1..n -> maps] :
              \A i \in 1..n : i < n => RankOf(h[i]) <= RankOf(h[i + 1])}}

AllAttributes == AttrIds

Quarter == <<1, 4>>
Half == <<1, 2>>

\* the mandatory constraints of a request: none, one (the dialog keeps the
\* mandatory tick of an enum attribute switched back to balance), or two of
\* different kinds
MandatoryParts ==
  {<<>>,
   <<AttractiveConstraint("team", TRUE)>>,
   <<RepulsiveConstraint("conflict", TRUE)>>,
   <<EnumConstraint("gender", "exclude", TRUE, Half)>>,
   <<EnumConstraint("gender", "balance", TRUE, Half)>>,
   <<AttractiveConstraint("team", TRUE), RepulsiveConstraint("conflict", TRUE)>>,
   <<AttractiveConstraint("team", TRUE), EnumConstraint("gender", "exclude", TRUE, Half)>>,
   <<RepulsiveConstraint("conflict", TRUE), EnumConstraint("gender", "exclude", TRUE, Half)>>}

\* the optimize constraints on an attribute
SoftParts ==
  {<<>>,
   <<AttractiveConstraint("team", FALSE)>>,
   <<RepulsiveConstraint("conflict", FALSE)>>,
   <<EnumConstraint("gender", "balance", FALSE, Half)>>}

SizeParts == {<<>>, <<DefaultConstraint(Quarter)>>}

\* at most one constraint per attribute, at most two constrained attributes
GenConstraintLists ==
  {x[1] \o x[2] \o x[3] : x \in
     {y \in MandatoryParts \X SoftParts \X SizeParts :
        /\ ConstrainedAttrs(y[1]) \cap ConstrainedAttrs(y[2]) = {}
        /\ Len(y[1]) + Len(y[2]) <= 2
        /\ Len(y[1]) + Len(y[2]) = 2 => y[3] = <<>>}}

TypeOK ==
  /\ pc \in {"idle", "create", "random", "redraw", "deal", "start", "place", "fill", "swap", "done", "error"}
  /\ attempt \in 0..maxAttempts
  /\ retryable \in BOOLEAN

(***************************************************************************)
(* Spec: one call of generateConstraintBasedDistribution.                  *)
(***************************************************************************)
Init ==
  /\ AppAtRest
  /\ drawn = <<>>
  /\ constraints \in GenConstraintLists
  /\ attributes = AllAttributes
  /\ groupCount \in 0..MaxGroups
  /\ maxAttempts = MaxAttemptsBound
  /\ \E n \in 0..MaxElements : elements \in ElementLists(n, AttrMaps(constraints))
  /\ pc = "start"
  /\ groups = <<>>
  /\ attempt = 0
  /\ toPlace = {}
  /\ remaining = {}
  /\ inputGroups = <<>>
  /\ numSwaps = 0
  /\ swapAttempt = 0
  /\ currentPenalty = RZero
  /\ retryable = TRUE

Next == Start \/ PlaceElement \/ FillElement \/ SwapIteration

Spec == Init /\ [][Next]_vars

(***************************************************************************)
(* SpecSwap: one call of performSwaps on an arbitrary grouping.            *)
(***************************************************************************)
RECURSIVE SeqOfSet(_)
\* the members of a set of ids in increasing order
SeqOfSet(S) ==
  IF S = {} THEN <<>>
  ELSE LET x == CHOOSE y \in S : \A z \in S : y <= z IN <<x>> \o SeqOfSet(S \ {x})

\* the grouping that puts element id into group f[id]
GroupingOf(f, numGroups) ==
  [g \in 1..numGroups |-> SeqOfSet({id \in DOMAIN f : f[id] = g})]

SwapSoftParts ==
  SoftParts \cup
    {<<EnumConstraint("gender", "exclude", FALSE, Half)>>,
     <<NumberConstraint("score", Quarter)>>}

SwapMandatoryParts ==
  {<<>>,
   <<AttractiveConstraint("team", TRUE)>>,
   <<RepulsiveConstraint("conflict", TRUE)>>,
   <<EnumConstraint("gender", "balance", TRUE, Half)>>}

SwapConstraintLists ==
  {x[1] \o x[2] \o x[3] : x \in
     {y \in SwapMandatoryParts \X SwapSoftParts \X SizeParts :
        /\ ConstrainedAttrs(y[1]) \cap ConstrainedAttrs(y[2]) = {}
        /\ Len(y[1]) + Len(y[2]) = 2 => y[3] = <<>>}}

InitSwap ==
  /\ AppAtRest
  /\ drawn = <<>>
  /\ constraints \in SwapConstraintLists
  /\ attributes = AllAttributes
  /\ groupCount \in 1..MaxGroups
  /\ maxAttempts = MaxAttemptsBound
  /\ \E n \in 1..MaxElements : elements \in ElementLists(n, AttrMaps(constraints))
  /\ \E f \in [ElementIds(elements) -> 1..groupCount] :
       /\ inputGroups = GroupingOf(f, groupCount)
       /\ groups = GroupingOf(f, groupCount)
  /\ numSwaps \in 0..MaxSwapsBound
  /\ swapAttempt = 0
  /\ currentPenalty = calculateGlobalPenalty(groups, elements, constraints, attributes)
  /\ pc = "swap"
  /\ attempt = 0
  /\ toPlace = {}
  /\ remaining = {}
  /\ retryable = TRUE

NextSwap == SwapIteration

SpecSwap == InitSwap /\ [][NextSwap]_vars

(***************************************************************************)
(* SpecSize: one call of generateConstraintBasedDistribution with the      *)
(* default constraint alone, at the schema's allowedDivergence of 0.2, on  *)
(* elements without attribute values.                                      *)
(***************************************************************************)
MaxSizeElements == 10

\* allowedDivergence: z.number().min(0).max(1).default(0.2)
Fifth == <<1, 5>>

InitSize ==
  /\ AppAtRest
  /\ drawn = <<>>
  /\ constraints = <<DefaultConstraint(Fifth)>>
  /\ attributes = AllAttributes
  /\ groupCount \in 1..MaxGroups
  /\ maxAttempts = MaxAttemptsBound
  /\ \E n \in 1..MaxSizeElements : elements \in ElementLists(n, AttrMaps(constraints))
  /\ pc = "start"
  /\ groups = <<>>
  /\ attempt = 0
  /\ toPlace = {}
  /\ remaining = {}
  /\ inputGroups = <<>>
  /\ numSwaps = 0
  /\ swapAttempt = 0
  /\ currentPenalty = RZero
  /\ retryable = TRUE

NextSize == Start \/ FillElement \/ SwapIteration

SpecSize == InitSize /\ [][NextSize]_vars

(***************************************************************************)
(* generateRandomDistribution and the choice the create handlers make      *)
(* between the two generators.                                             *)
(***************************************************************************)
\* (mutation: every element is dealt to the first group)
DealIndexFirst(index, numGroups) == 1

\* groupIndex = index % groupCount, counted from 1
DealIndex(index, numGroups) == (index % numGroups) + 1

\* data.constraints.length > 0 ? generateConstraintBasedDistribution(...)
\*                             : generateRandomDistribution(...)
Dispatch ==
  /\ UNCHANGED <<app, drawn>>
  /\ pc = "create"
  /\ pc' = IF Len(constraints) > 0 THEN "start" ELSE "random"
  /\ UNCHANGED <<inputs, groups, attempt, toPlace, remaining, inputGroups, numSwaps,
                 swapAttempt, currentPenalty, retryable>>

\* generateRandomDistribution, entry: the empty case, else empty groups and
\* the shuffle
RandomStart ==
  /\ UNCHANGED <<app, drawn>>
  /\ pc = "random"
  /\ IF Len(elements) = 0 \/ groupCount <= 0 THEN
       /\ pc' = "done"
       /\ groups' = <<>>
       /\ UNCHANGED remaining
     ELSE
       /\ pc' = "deal"
       /\ groups' = EmptyGroups(groupCount)
       /\ remaining' = ElementIds(elements)
  /\ UNCHANGED <<inputs, attempt, toPlace, inputGroups, numSwaps, swapAttempt,
                 currentPenalty, retryable>>

\* generateRandomDistribution, one element of shuffled.forEach
RandomDeal ==
  /\ UNCHANGED <<app, drawn>>
  /\ pc = "deal"
  /\ IF remaining = {} THEN
       /\ pc' = "done"
       /\ UNCHANGED <<groups, remaining>>
     ELSE
       /\ \E e \in Representatives(remaining) :
            /\ groups' = WithMember(groups, DealIndex(TotalMembers(groups), groupCount), e)
            /\ remaining' = remaining \ {e}
       /\ UNCHANGED pc
  /\ UNCHANGED <<inputs, attempt, toPlace, inputGroups, numSwaps, swapAttempt,
                 currentPenalty, retryable>>

(***************************************************************************)
(* SpecCreate: one run of a create handler's generation, on the requests   *)
(* of Spec and, without constraints, on up to MaxSizeElements elements.    *)
(***************************************************************************)
InitCreate ==
  /\ AppAtRest
  /\ drawn = <<>>
  /\ constraints \in GenConstraintLists
  /\ attributes = AllAttributes
  /\ groupCount \in 0..MaxGroups
  /\ maxAttempts = MaxAttemptsBound
  /\ \E n \in 0..(IF constraints = <<>> THEN MaxSizeElements ELSE MaxElements) :
       elements \in ElementLists(n, AttrMaps(constraints))
  /\ pc = "create"
  /\ groups = <<>>
  /\ attempt = 0
  /\ toPlace = {}
  /\ remaining = {}
  /\ inputGroups = <<>>
  /\ numSwaps = 0
  /\ swapAttempt = 0
  /\ currentPenalty = RZero
  /\ retryable = TRUE

NextCreate ==
  \/ Dispatch
  \/ RandomStart
  \/ RandomDeal
  \/ Start
  \/ PlaceElement
  \/ FillElement
  \/ SwapIteration

SpecCreate == InitCreate /\ [][NextCreate]_vars

(***************************************************************************)
(* The database (AppDB) and the handlers of the two pages.  A group id is  *)
(* a fresh UUID per generated grouping: it is modelled as the number of    *)
(* the grouping (stamp) and the position of the group in it.               *)
(***************************************************************************)
MaxOps == 3
MaxCalls == 2
MaxIds == 3
MaxDistributions == 1

gen == <<elements, constraints, attributes, groupCount, maxAttempts, pc, groups,
         attempt, toPlace, remaining, inputGroups, numSwaps, swapAttempt,
         currentPenalty, retryable, drawn>>

AttributeIds(attrs) == {r.id : r \in attrs}

\* validateElementAttributes(...).valid: every key of element.attributes is
\* the id of an attribute of the session (no attribute of the model is
\* required, and every value drawn is of its attribute's type)
validateElementAttributes(attrMap, sessionAttrs) ==
  \A a \in AttrIds : Defined(attrMap[a]) => a \in AttributeIds(sessionAttrs)

\* the user may start an operation: no generation is running
UserMayAct == pc = "idle" /\ ops < MaxOps

\* addElement
AddElement(attrMap) ==
  /\ UserMayAct
  /\ store.nextId <= MaxIds
  /\ validateElementAttributes(attrMap, store.attributes)
  /\ store' = [store EXCEPT
                 !.elements = Append(@, [id |-> store.nextId, attributes |-> attrMap]),
                 !.nextId = @ + 1]
  /\ ops' = ops + 1
  /\ UNCHANGED <<gen, calls, handler, report>>

\* updateElement with a new attribute map
UpdateElement(i, attrMap) ==
  /\ UserMayAct
  /\ i \in DOMAIN store.elements
  /\ attrMap # store.elements[i].attributes
  /\ validateElementAttributes(attrMap, store.attributes)
  /\ store' = [store EXCEPT !.elements[i].attributes = attrMap]
  /\ ops' = ops + 1
  /\ UNCHANGED <<gen, calls, handler, report>>

\* deleteElement
DeleteElement(i) ==
  /\ UserMayAct
  /\ i \in DOMAIN store.elements
  /\ store' = [store EXCEPT
                 !.elements = SubSeq(@, 1, i - 1) \o SubSeq(@, i + 1, Len(@))]
  /\ ops' = ops + 1
  /\ UNCHANGED <<gen, calls, handler, report>>

\* addAttribute: a new record, its id appended to session.attributes (ids are
\* fresh UUIDs: the id of a deleted attribute is never used again)
AddAttribute(id) ==
  /\ UserMayAct
  /\ id \notin AttributeIds(store.attributes) \cup store.retired
  /\ store' = [store EXCEPT
                 !.attributes = @ \cup {[id |-> id, name |-> 0]},
                 !.sessionAttributes = Append(@, id)]
  /\ ops' = ops + 1
  /\ UNCHANGED <<gen, calls, handler, report>>

\* updateAttribute: the record is renamed
UpdateAttribute(id) ==
  /\ UserMayAct
  /\ id \in AttributeIds(store.attributes)
  /\ store' = [store EXCEPT
                 !.attributes = {IF r.id = id THEN [r EXCEPT !.name = 1 - @] ELSE r : r \in @}]
  /\ ops' = ops + 1
  /\ UNCHANGED <<gen, calls, handler, report>>

\* if (element.attributes[id]) { const { [id]: _removed, ...remainingAttrs } ... }
WithoutValue(attrMap, id) ==
  IF Truthy(attrMap[id]) THEN [attrMap EXCEPT ![id] = Undef] ELSE attrMap

\* deleteAttribute
DeleteAttribute(id) ==
  /\ UserMayAct
  /\ id \in AttributeIds(store.attributes)
  /\ store' = [store EXCEPT
                 !.sessionAttributes = SelectSeq(@, LAMBDA x : x # id),
                 !.elements = [i \in DOMAIN @ |->
                                 [@[i] EXCEPT !.attributes = WithoutValue(@, id)]],
                 !.attributes = {r \in @ : r.id # id},
                 !.retired = @ \cup {id}]
  /\ ops' = ops + 1
  /\ UNCHANGED <<gen, calls, handler, report>>

\* addDistribution's copy of a constraint: allowedDivergence is kept for a
\* number and an enum balance constraint only; the schema's default 0.2
\* replaces it on a default and an enum exclude constraint
StoredConstraint(c) ==
  IF /\ "allowedDivergence" \in DOMAIN c
     /\ ~(c.type = "number" \/ (c.type = "enum" /\ c.mode = "balance"))
  THEN [c EXCEPT !.allowedDivergence = DefaultDivergence]
  ELSE c

\* the generator is called: the locals of the call, then the choice of Dispatch
CallGenerate(els, numGroups, cs, attrs) ==
  /\ elements' = els
  /\ groupCount' = numGroups
  /\ constraints' = cs
  /\ attributes' = attrs
  /\ pc' = "create"
  /\ UNCHANGED <<maxAttempts, drawn, groups, attempt, toPlace, remaining, inputGroups,
                 numSwaps, swapAttempt, currentPenalty, retryable>>

\* the generator's call is over: its locals are gone
GenerateOver ==
  /\ elements' = <<>>
  /\ groupCount' = 0
  /\ constraints' = <<>>
  /\ attributes' = {}
  /\ pc' = "idle"
  /\ groups' = <<>>
  /\ attempt' = 0
  /\ toPlace' = {}
  /\ remaining' = {}
  /\ inputGroups' = <<>>
  /\ numSwaps' = 0
  /\ swapAttempt' = 0
  /\ currentPenalty' = RZero
  /\ retryable' = TRUE
  /\ UNCHANGED <<maxAttempts, drawn>>

\* handleCreateDistribution of the session page, up to the generator's call
CreateDistribution(cs, numGroups) ==
  /\ UserMayAct
  /\ Len(store.distributions) < MaxDistributions
  /\ CallGenerate(store.elements, numGroups, cs, AttributeIds(store.attributes))
  /\ handler' = [kind |-> "create", dist |-> 0]
  /\ ops' = ops + 1
  /\ UNCHANGED <<store, calls, report>>

\* handleCreateDistribution, the generator has returned: addDistribution
\* stores the groups with snapshots of the session's elements and attributes
CreateDone ==
  /\ pc = "done"
  /\ handler.kind = "create"
  /\ store' = [store EXCEPT !.distributions = Append(@,
                 [name |-> 0,
                  constraints |-> [i \in DOMAIN constraints |-> StoredConstraint(constraints[i])],
                  groups |-> groups,
                  stamp |-> 0,
                  snapshotElements |-> store.elements,
                  snapshotAttributes |-> store.attributes])]
  /\ handler' = NoHandler
  /\ GenerateOver
  /\ UNCHANGED <<calls, report, ops>>

\* the generator has thrown: the create dialog shows the error, the
\* regenerate handler a toast; nothing is stored
GenerateFailed ==
  /\ pc = "error"
  /\ handler.kind \in {"create", "regenerate"}
  /\ handler' = NoHandler
  /\ GenerateOver
  /\ UNCHANGED <<store, calls, report, ops>>

\* handleRegenerateDistribution, up to the generator's call
RegenerateDistribution(d) ==
  /\ UserMayAct
  /\ d \in DOMAIN store.distributions
  /\ CallGenerate(store.distributions[d].snapshotElements,
                  Len(store.distributions[d].groups),
                  store.distributions[d].constraints,
                  AttributeIds(store.distributions[d].snapshotAttributes))
  /\ handler' = [kind |-> "regenerate", dist |-> d]
  /\ ops' = ops + 1
  /\ UNCHANGED <<store, calls, report>>

\* the record updateDistribution(distributionId, { groups }) leaves
\* (mutation: the snapshots are taken again)
RegeneratedResnapshot(dist, newGroups) ==
  [dist EXCEPT !.groups = newGroups, !.stamp = @ + 1,
               !.snapshotElements = store.elements,
               !.snapshotAttributes = store.attributes]

Regenerated(dist, newGroups) == [dist EXCEPT !.groups = newGroups, !.stamp = @ + 1]

\* handleRegenerateDistribution, the generator has returned
RegenerateDone ==
  /\ pc = "done"
  /\ handler.kind = "regenerate"
  /\ store' = [store EXCEPT !.distributions[handler.dist] = Regenerated(@, groups)]
  /\ handler' = NoHandler
  /\ GenerateOver
  /\ UNCHANGED <<calls, report, ops>>

\* handleSaveName: updateDistribution(distId, { name })
RenameDistribution(d) ==
  /\ UserMayAct
  /\ d \in DOMAIN store.distributions
  /\ store' = [store EXCEPT !.distributions[d].name = 1 - @]
  /\ ops' = ops + 1
  /\ UNCHANGED <<gen, calls, handler, report>>

\* members.filter((memberId) => memberId !== elementId)
Without(members, elementId) == SelectSeq(members, LAMBDA m : m # elementId)

\* (mutation: the element is not removed from the group it was in)
MovedGroupsKept(gs, elementId, groupIndex) ==
  [g \in DOMAIN gs |-> IF g = groupIndex THEN Append(gs[g], elementId) ELSE gs[g]]

\* updatedGroups: elementId removed from every group, then pushed to the new one
MovedGroups(gs, elementId, groupIndex) ==
  [g \in DOMAIN gs |->
     IF g = groupIndex THEN Append(Without(gs[g], elementId), elementId)
     ELSE Without(gs[g], elementId)]

\* updatedGroups.find((g) => g.id === newGroupId) is defined
GroupFound(dist, group) == group.stamp = dist.stamp /\ group.index \in DOMAIN dist.groups

\* the ids the page renders as draggable members
DraggableIds(dist) ==
  MemberIds(dist.groups) \cap ElementIds(dist.snapshotElements)

\* handleDragEnd: the drop of elementId on the group at groupIndex (0: on a
\* group that is not one of the distribution); the handler keeps the
\* distribution it was rendered with
MoveBegin(d, elementId, groupIndex) ==
  /\ UserMayAct
  /\ Cardinality(calls) < MaxCalls
  /\ d \in DOMAIN store.distributions
  /\ elementId \in DraggableIds(store.distributions[d])
  /\ groupIndex \in 0..Len(store.distributions[d].groups)
  /\ \A c \in calls : ~(c.dist = d /\ c.element = elementId)
  /\ calls' = calls \cup
       {[dist |-> d, element |-> elementId,
         group |-> [stamp |-> store.distributions[d].stamp, index |-> groupIndex],
         phase |-> "get",
         rendered |-> store.distributions[d].groups,
         updatedGroups |-> <<>>]}
  /\ ops' = ops + 1
  /\ UNCHANGED <<gen, store, handler, report>>

\* updateGroupMembership, from await getDistribution to the call of
\* updateDistribution; an unknown group throws, and handleDragEnd shows the
\* error toast
MoveGet(c) ==
  /\ pc = "idle"
  /\ c \in calls
  /\ c.phase = "get"
  /\ IF GroupFound(store.distributions[c.dist], c.group) THEN
       /\ calls' = (calls \ {c}) \cup
            {[c EXCEPT !.phase = "update",
                       !.updatedGroups = MovedGroups(store.distributions[c.dist].groups,
                                                     c.element, c.group.index)]}
       /\ UNCHANGED report
     ELSE
       /\ calls' = calls \ {c}
       /\ report' = [kind |-> "failed", dist |-> c.dist, element |-> c.element,
                     group |-> c.group.index, warned |-> FALSE]
  /\ UNCHANGED <<gen, store, handler, ops>>

\* updateDistribution(distributionId, { groups: updatedGroups })
MoveUpdate(c) ==
  /\ pc = "idle"
  /\ c \in calls
  /\ c.phase = "update"
  /\ store' = [store EXCEPT !.distributions[c.dist].groups = c.updatedGroups]
  /\ calls' = (calls \ {c}) \cup {[c EXCEPT !.phase = "check"]}
  /\ UNCHANGED <<gen, handler, report, ops>>

\* handleDragEnd after the await: the checker runs on the rendered groups
\* with the move applied, and issues are shown as a warning toast
MoveCheck(c) ==
  /\ pc = "idle"
  /\ c \in calls
  /\ c.phase = "check"
  /\ calls' = calls \ {c}
  /\ report' = [kind |-> "moved", dist |-> c.dist, element |-> c.element,
                group |-> c.group.index,
                warned |-> ~checkConstraintSatisfaction(
                              MovedGroups(c.rendered, c.element, c.group.index),
                              store.distributions[c.dist].snapshotElements,
                              store.distributions[c.dist].constraints,
                              AttributeIds(store.distributions[c.dist].snapshotAttributes))]
  /\ UNCHANGED <<gen, store, handler, ops>>

(***************************************************************************)
(* SpecDb: a session with two attributes and up to two elements, then up   *)
(* to MaxOps operations of the user; the steps of up to MaxCalls moves     *)
(* interleave.                                                             *)
(***************************************************************************)
\* the attribute maps of the session's elements: the repulsive attribute
\* unset, unticked or set; the enum attribute set
DbAttrMaps ==
  {[a \in AttrIds |-> IF a = "conflict" THEN v ELSE IF a = "gender" THEN Str("M") ELSE Undef] :
     v \in {Undef, Bool(FALSE), Str("X")}}

\* the constraint lists of the create dialog
DbConstraintLists ==
  {<<>>, <<RepulsiveConstraint("conflict", TRUE)>>, <<DefaultConstraint(Quarter)>>}

MaxStoreElements == 2

InitDb ==
  /\ \E n \in 0..MaxStoreElements :
       \E els \in ElementLists(n, DbAttrMaps) :
         store = [elements |-> els,
                  attributes |-> {[id |-> "conflict", name |-> 0], [id |-> "gender", name |-> 0]},
                  sessionAttributes |-> <<"conflict", "gender">>,
                  retired |-> {},
                  nextId |-> n + 1,
                  distributions |-> <<>>]
  /\ calls = {}
  /\ handler = NoHandler
  /\ report = NoReport
  /\ ops = 0
  /\ drawn = <<>>
  /\ elements = <<>>
  /\ constraints = <<>>
  /\ attributes = {}
  /\ groupCount = 0
  /\ maxAttempts = MaxAttemptsBound
  /\ pc = "idle"
  /\ groups = <<>>
  /\ attempt = 0
  /\ toPlace = {}
  /\ remaining = {}
  /\ inputGroups = <<>>
  /\ numSwaps = 0
  /\ swapAttempt = 0
  /\ currentPenalty = RZero
  /\ retryable = TRUE

NextDb ==
  \/ \E m \in DbAttrMaps : AddElement(m)
  \/ \E i \in 1..MaxIds : \E m \in DbAttrMaps : UpdateElement(i, m)
  \/ \E i \in 1..MaxIds : DeleteElement(i)
  \/ \E a \in AttrIds : AddAttribute(a)
  \/ \E a \in AttrIds : UpdateAttribute(a)
  \/ \E a \in AttrIds : DeleteAttribute(a)
  \/ \E cs \in DbConstraintLists : \E k \in 1..MaxGroups : CreateDistribution(cs, k)
  \/ CreateDone
  \/ GenerateFailed
  \/ \E d \in 1..MaxDistributions : RegenerateDistribution(d)
  \/ RegenerateDone
  \/ \E d \in 1..MaxDistributions : RenameDistribution(d)
  \/ \E d \in 1..MaxDistributions : \E e \in 1..MaxIds : \E g \in 0..MaxGroups :
       MoveBegin(d, e, g)
  \/ \E c \in calls : MoveGet(c)
  \/ \E c \in calls : MoveUpdate(c)
  \/ \E c \in calls : MoveCheck(c)
  \/ Dispatch
  \/ RandomStart
  \/ RandomDeal
  \/ Start
  \/ PlaceElement
  \/ FillElement
  \/ SwapIteration

SpecDb == InitDb /\ [][NextDb]_vars

(***************************************************************************)
(* SpecStale: one call of generateConstraintBasedDistribution whose        *)
(* constraint on the attribute "team" is stale: the attribute list no      *)
(* longer holds "team", the elements may still carry values under it.      *)
(***************************************************************************)
StaleAttributes == {"team"}

\* the stale constraint of a request, mandatory or not
StaleParts ==
  {<<AttractiveConstraint("team", TRUE)>>,
   <<RepulsiveConstraint("team", TRUE)>>,
   <<AttractiveConstraint("team", FALSE)>>}

\* the other constraints of the request
LiveParts ==
  {<<>>,
   <<DefaultConstraint(Quarter)>>,
   <<EnumConstraint("gender", "balance", FALSE, Half)>>,
   <<RepulsiveConstraint("conflict", TRUE)>>}

InitStale ==
  /\ AppAtRest
  /\ drawn = <<>>
  /\ constraints \in {x[1] \o x[2] : x \in StaleParts \X LiveParts}
  /\ attributes = AllAttributes \ StaleAttributes
  /\ groupCount \in 1..MaxGroups
  /\ maxAttempts = MaxAttemptsBound
  /\ \E n \in 1..MaxElements : elements \in ElementLists(n, AttrMaps(constraints))
  /\ pc = "start"
  /\ groups = <<>>
  /\ attempt = 0
  /\ toPlace = {}
  /\ remaining = {}
  /\ inputGroups = <<>>
  /\ numSwaps = 0
  /\ swapAttempt = 0
  /\ currentPenalty = RZero
  /\ retryable = TRUE

SpecStale == InitStale /\ [][Next]_vars

(***************************************************************************)
(* SpecLive: one call of generateConstraintBasedDistribution with the two  *)
(* random draws of a swap iteration as steps of their own: the second     *)
(* slot is drawn again while it equals the first.  Every step of the call  *)
(* is taken once it can be (the call runs to completion), and a re-draw    *)
(* that can yield a different slot eventually does.                        *)
(***************************************************************************)
\* performSwaps, the head of an iteration up to the first draw of pos2Index
SwapDraw ==
  /\ UNCHANGED app
  /\ pc = "swap"
  /\ IF swapAttempt >= numSwaps \/ Cardinality(SwappablePositions(groups)) < 2 THEN
       /\ pc' = "done"
       /\ UNCHANGED <<groups, swapAttempt, currentPenalty, drawn>>
     ELSE
       \E pos1 \in SwappablePositions(groups) :
         \E pos2 \in SwappablePositions(groups) :
           IF pos2 = pos1 THEN
             /\ pc' = "redraw"
             /\ drawn' = pos1
             /\ UNCHANGED <<groups, swapAttempt, currentPenalty>>
           ELSE
             /\ TrySwap(pos1, pos2)
             /\ UNCHANGED <<pc, drawn>>
  /\ UNCHANGED <<inputs, attempt, toPlace, remaining, inputGroups, numSwaps, retryable>>

\* while (pos2Index === pos1Index && swappablePositions.length > 1): one
\* more draw; an equal slot leaves the loop where it is
SwapRedraw ==
  /\ UNCHANGED app
  /\ pc = "redraw"
  /\ \E pos2 \in SwappablePositions(groups) :
       IF pos2 = drawn THEN
         UNCHANGED <<pc, drawn, groups, swapAttempt, currentPenalty>>
       ELSE
         /\ TrySwap(drawn, pos2)
         /\ pc' = "swap"
         /\ drawn' = <<>>
  /\ UNCHANGED <<inputs, attempt, toPlace, remaining, inputGroups, numSwaps, retryable>>

NextLive == Start \/ PlaceElement \/ FillElement \/ SwapDraw \/ SwapRedraw

\* requests that make the solver retry, exhaust its attempts, fail the
\* pre-check, or leave elements to the fill and the swaps
LiveConstraintLists ==
  {<<AttractiveConstraint("team", TRUE), EnumConstraint("gender", "exclude", TRUE, Half)>>,
   <<EnumConstraint("gender", "balance", TRUE, Half)>>,
   <<RepulsiveConstraint("conflict", TRUE)>>,
   <<AttractiveConstraint("team", FALSE), DefaultConstraint(Quarter)>>}

InitLive ==
  /\ AppAtRest
  /\ drawn = <<>>
  /\ constraints \in LiveConstraintLists
  /\ attributes = AllAttributes
  /\ groupCount = MaxGroups
  /\ maxAttempts = MaxAttemptsBound
  /\ \E n \in 1..MaxElements : elements \in ElementLists(n, AttrMaps(constraints))
  /\ pc = "start"
  /\ groups = <<>>
  /\ attempt = 0
  /\ toPlace = {}
  /\ remaining = {}
  /\ inputGroups = <<>>
  /\ numSwaps = 0
  /\ swapAttempt = 0
  /\ currentPenalty = RZero
  /\ retryable = TRUE

SpecLive == InitLive /\ [][NextLive]_vars /\ WF_vars(NextLive) /\ WF_vars(SwapRedraw)

(***************************************************************************)
(* SpecFrom: SpecDb with the distribution page's "create from this         *)
(* distribution": handleCreateFromDistribution generates from the          *)
(* snapshots of the distribution shown and hands the groups to             *)
(* addDistribution, which CreateDone models.                               *)
(***************************************************************************)
MaxDerived == 1

\* handleCreateFromDistribution, up to the generator's call
CreateFromDistribution(d, cs, numGroups) ==
  /\ UserMayAct
  /\ d \in DOMAIN store.distributions
  /\ Len(store.distributions) < MaxDistributions + MaxDerived
  /\ CallGenerate(store.distributions[d].snapshotElements, numGroups, cs,
                  AttributeIds(store.distributions[d].snapshotAttributes))
  /\ handler' = [kind |-> "create", dist |-> d]
  /\ ops' = ops + 1
  /\ UNCHANGED <<store, calls, report>>

NextFrom ==
  \/ NextDb
  \/ \E d \in 1..MaxDistributions : \E cs \in DbConstraintLists : \E k \in 1..MaxGroups :
       CreateFromDistribution(d, cs, k)

SpecFrom == InitDb /\ [][NextFrom]_vars

(***************************************************************************)
(* SpecCheck: the distribution page shows a stored grouping and computes   *)
(* checkConstraintSatisfaction for it when it renders.  The grouping, the  *)
(* elements and the one constraint are arbitrary.                          *)
(***************************************************************************)
MaxCheckGroups == 3
MaxGridSteps == 40

\* allowedDivergence: any number of [0, 1], here the multiples of 1/40
DivergenceGrid == {Rat(k, MaxGridSteps) : k \in 0..MaxGridSteps}

\* the values the slider writes, and the default 0.2
SliderDivergences ==
  {DIVERGENCE_LEVELS[k] : k \in DOMAIN DIVERGENCE_LEVELS} \cup {DefaultDivergence}

CheckConstraintLists ==
  {<<DefaultConstraint(d)>> : d \in DivergenceGrid}
    \cup {<<EnumConstraint("gender", "balance", FALSE, d)>> : d \in SliderDivergences}
    \cup {<<NumberConstraint("score", d)>> : d \in SliderDivergences}
    \cup {<<EnumConstraint("gender", "exclude", FALSE, DefaultDivergence)>>,
          <<AttractiveConstraint("team", FALSE)>>,
          <<RepulsiveConstraint("conflict", FALSE)>>}

\* the attribute maps of the elements: any value of the constrained attribute
CheckAttrMaps(cs) ==
  {m \in [AttrIds -> UNION {{ValueChoices[a][k] : k \in 1..3} : a \in AttrIds}] :
     \A a \in AttrIds :
       IF a \in ConstrainedAttrs(cs)
       THEN \E k \in 1..3 : m[a] = ValueChoices[a][k]
       ELSE m[a] = Undef}

\* const constraintCheck = checkConstraintSatisfaction(distribution.groups, ...)
RenderCheck ==
  /\ pc = "done"
  /\ report.kind = "none"
  /\ report' = [kind |-> "checked", dist |-> 0, element |-> 0, group |-> 0,
                warned |-> ~checkConstraintSatisfaction(groups, elements,
                                                        constraints, attributes)]
  /\ UNCHANGED <<gen, store, calls, handler, ops>>

InitCheck ==
  /\ AppAtRest
  /\ drawn = <<>>
  /\ constraints \in CheckConstraintLists
  /\ attributes = AllAttributes
  /\ groupCount \in 1..MaxCheckGroups
  /\ maxAttempts = MaxAttemptsBound
  /\ \E n \in 1..MaxElements : elements \in ElementLists(n, CheckAttrMaps(constraints))
  /\ \E f \in [ElementIds(elements) -> 1..groupCount] :
       /\ inputGroups = GroupingOf(f, groupCount)
       /\ groups = GroupingOf(f, groupCount)
  /\ numSwaps = 0
  /\ swapAttempt = 0
  /\ currentPenalty = calculateGlobalPenalty(groups, elements, constraints, attributes)
  /\ pc = "done"
  /\ attempt = 0
  /\ toPlace = {}
  /\ remaining = {}
  /\ retryable = TRUE

NextCheck == RenderCheck

SpecCheck == InitCheck /\ [][NextCheck]_vars

(***************************************************************************)
(* Vocabulary of the properties.                                           *)
(***************************************************************************)
\* how often id occurs in the member lists of gs
Occurrences(gs, id) ==
  ISumSeq([g \in DOMAIN gs |-> Cardinality({m \in DOMAIN gs[g] : gs[g][m] = id})])

\* the groups holding id
GroupsOf(gs, id) == {g \in DOMAIN gs : \E m \in DOMAIN gs[g] : gs[g][m] = id}

PenaltyOf(gs) == calculateGlobalPenalty(gs, elements, constraints, attributes)

\* generate has called the solver with at least one mandatory constraint
SolverRan ==
  /\ pc # "start"
  /\ Len(elements) > 0
  /\ groupCount > 0
  /\ MandatoryConstraints(constraints) # <<>>

\* generate has returned its groups
Returned == pc = "done" /\ Len(elements) > 0 /\ groupCount > 0

\* some assignment of the elements to groupCount groups satisfies every
\* mandatory constraint according to the checker
Satisfiable ==
  \E f \in [ElementIds(elements) -> 1..groupCount] :
    checkConstraintSatisfaction(GroupingOf(f, groupCount), elements,
                                MandatoryConstraints(constraints), attributes)

\* the mandatory constraints of the given type on a known attribute
MandatoryOfType(type) ==
  {i \in DOMAIN constraints :
     /\ IsMandatory(constraints[i])
     /\ constraints[i].type = type
     /\ constraints[i].attributeId \in attributes}

\* elements i and j hold the same non-empty value under attribute a
SharePresent(i, j, a) ==
  /\ Present(elements[i].attributes[a])
  /\ elements[i].attributes[a] = elements[j].attributes[a]

\* elements i and j hold the same truthy value under attribute a
ShareTruthy(i, j, a) ==
  /\ Truthy(elements[i].attributes[a])
  /\ elements[i].attributes[a] = elements[j].attributes[a]

\* elements i and j hold different truthy values under attribute a
DifferTruthy(i, j, a) ==
  /\ Truthy(elements[i].attributes[a])
  /\ Truthy(elements[j].attributes[a])
  /\ elements[i].attributes[a] # elements[j].attributes[a]

SameGroup(i, j) == GroupsOf(groups, elements[i].id) = GroupsOf(groups, elements[j].id)
DifferentGroups(i, j) ==
  GroupsOf(groups, elements[i].id) \cap GroupsOf(groups, elements[j].id) = {}

(***************************************************************************)
(* C1 (SpecSwap).  performSwaps never raises the penalty: the penalty of   *)
(* the current groups, which is the stored currentPenalty, is at most the  *)
(* penalty of the input groups, in every iteration and on return, and the  *)
(* stored currentPenalty never increases from one iteration to the next.   *)
(***************************************************************************)
C1_SwapsNeverRaisePenalty ==
  /\ [](/\ currentPenalty = PenaltyOf(groups)
        /\ RLeq(PenaltyOf(groups), PenaltyOf(inputGroups)))
  /\ [][RLeq(currentPenalty', currentPenalty)]_vars

\* a call that has returned after keeping a swap that lowered the penalty
C1_Witness ==
  /\ pc = "done"
  /\ groups # inputGroups
  /\ RLess(PenaltyOf(groups), PenaltyOf(inputGroups))

(***************************************************************************)
(* C2 (Spec).  For a non-empty element list and groupCount >= 1: once the  *)
(* solver has handed over, every element id is either in exactly one group *)
(* exactly once or still waiting for the greedy fill, never both, and no   *)
(* other id is in a group; the swaps only permute members; so the groups   *)
(* generate returns hold every input id exactly once and nothing else.     *)
(***************************************************************************)
C2_EveryElementExactlyOnce ==
  (pc \in {"fill", "swap", "done"} /\ Len(elements) > 0 /\ groupCount > 0) =>
    /\ MemberIds(groups) \subseteq ElementIds(elements)
    /\ \A id \in ElementIds(elements) :
         Occurrences(groups, id) + (IF id \in remaining THEN 1 ELSE 0) = 1
    /\ pc \in {"swap", "done"} =>
         /\ remaining = {}
         /\ Len(groups) = groupCount
         /\ \A id \in ElementIds(elements) : Occurrences(inputGroups, id) = 1
         /\ \A g \in DOMAIN groups : Len(groups[g]) = Len(inputGroups[g])

\* a return for three elements, some placed by the solver and some by the fill
C2_Witness ==
  /\ Returned
  /\ Len(elements) = MaxElements
  /\ MandatoryElements(elements, constraints) # {}
  /\ NonMandatoryElements(elements, constraints) # {}
  /\ swapAttempt > 0

(***************************************************************************)
(* C3 (Spec).  Every grouping generate returns passes the checker when it  *)
(* is given the mandatory constraints only.                                *)
(***************************************************************************)
C3_ReturnedGroupsSatisfyMandatory ==
  Returned =>
    checkConstraintSatisfaction(groups, elements, MandatoryConstraints(constraints),
                                attributes)

\* a return under two mandatory constraints after an abandoned attempt
C3_Witness ==
  /\ Returned
  /\ Len(MandatoryConstraints(constraints)) = 2
  /\ Cardinality(MandatoryElements(elements, constraints)) = MaxElements
  /\ attempt > 0

(***************************************************************************)
(* C4 (Spec).  In every grouping generate returns under a mandatory        *)
(* attractive constraint on attribute A, any two elements that hold the    *)
(* same value under A are members of the same group.                       *)
(***************************************************************************)
C4_AttractiveTogether ==
  Returned =>
    \A k \in MandatoryOfType("attractive") :
      \A i, j \in DOMAIN elements :
        SharePresent(i, j, constraints[k].attributeId) => SameGroup(i, j)

\* a return with two elements of one team in one group and a third elsewhere
C4_Witness ==
  /\ Returned
  /\ \E k \in MandatoryOfType("attractive") :
       \E i, j, l \in DOMAIN elements :
         /\ i # j
         /\ SharePresent(i, j, constraints[k].attributeId)
         /\ Truthy(elements[i].attributes[constraints[k].attributeId])
         /\ SameGroup(i, j)
         /\ ~SameGroup(i, l)

\* the mandatory enum constraints in exclude mode on a known attribute
MandatoryExclude == {k \in MandatoryOfType("enum") : constraints[k].mode = "exclude"}

RepulsiveValueOverfull ==
  \E k \in MandatoryOfType("repulsive") :
    \E i \in DOMAIN elements :
      /\ Truthy(elements[i].attributes[constraints[k].attributeId])
      /\ Cardinality({j \in DOMAIN elements :
                        ShareTruthy(i, j, constraints[k].attributeId)}) > groupCount

\* the solver has raised the non-retryable error without a placement attempt
FailedUpfront ==
  /\ pc = "error"
  /\ ~retryable
  /\ attempt = 0
  /\ groups = <<>>
  /\ toPlace = {}

(***************************************************************************)
(* C6 (Spec).  When some value of a mandatory repulsive constraint is held *)
(* by more elements than groupCount, the solver ends with the error whose  *)
(* retryable flag is false, before any placement attempt.                  *)
(***************************************************************************)
C6_OverfullRepulsiveFailsUpfront ==
  (SolverRan /\ RepulsiveValueOverfull) => FailedUpfront

\* three elements sharing one repulsive value asked into two groups
C6_Witness ==
  /\ SolverRan
  /\ RepulsiveValueOverfull
  /\ groupCount = MaxGroups
  /\ Len(elements) = MaxElements
  /\ FailedUpfront

(***************************************************************************)
(* C7 (Spec), as stated.  Whenever the solver raises the non-retryable     *)
(* error, no assignment of the elements to groupCount groups passes the    *)
(* checker on the mandatory constraints.                                   *)
(***************************************************************************)
C7_RejectedOnlyIfUnsatisfiable ==
  (SolverRan /\ pc = "error" /\ ~retryable) => ~Satisfiable

ValidationVerdict == validateMandatoryConstraints(elements, groupCount, constraints, attributes)

C9_ThreeOutcomes ==
  SolverRan =>
    /\ pc = "error" =>
         IF retryable
         THEN ValidationVerdict = "ok" /\ attempt = maxAttempts
         ELSE ValidationVerdict # "ok" /\ FailedUpfront
    /\ pc # "error" =>
         /\ ValidationVerdict = "ok"
         /\ attempt < maxAttempts
    /\ pc \in {"fill", "swap", "done"} =>
         /\ toPlace = {}
         /\ MandatoryElements(elements, constraints) \subseteq MemberIds(groups)

\* a satisfiable input whose attempts were all abandoned
C9_Witness ==
  /\ SolverRan
  /\ pc = "error"
  /\ retryable
  /\ attempt = maxAttempts
  /\ Satisfiable

\* constraint.mandatory === true, on the constraints that have the field
HasMandatoryFlag(c) == "mandatory" \in DOMAIN c /\ c.mandatory
LacksMandatoryFlag(c) == ~HasMandatoryFlag(c)

(***************************************************************************)
(* C10 (SpecSwap).  For every grouping, the global penalty of a constraint *)
(* list equals the global penalty of the list with the constraints having  *)
(* mandatory = true removed: such a constraint adds nothing, however badly *)
(* the grouping violates it.                                               *)
(***************************************************************************)
C10_MandatoryAddsNoPenalty ==
  /\ PenaltyOf(groups) =
       calculateGlobalPenalty(groups, elements, SelectSeq(constraints, LacksMandatoryFlag),
                              attributes)
  /\ SelectSeq(constraints, LacksMandatoryFlag) = <<>> => PenaltyOf(groups) = RZero

\* a grouping that breaks a mandatory constraint which, were it an optimize
\* constraint, would be penalised
C10_Witness ==
  \E k \in DOMAIN constraints :
    /\ HasMandatoryFlag(constraints[k])
    /\ ~checkConstraintSatisfaction(groups, elements, <<constraints[k]>>, attributes)
    /\ RLess(RZero, AttributePenalty(constraints[k], groups, elements))

\* the constraints that take part in the penalty: not flagged mandatory, and
\* on a known attribute
Penalised(gs) ==
  {k \in DOMAIN constraints :
     /\ LacksMandatoryFlag(constraints[k])
     /\ constraints[k].type # "default" => constraints[k].attributeId \in attributes}

\* the balance-type constraints: enum balance, number, default
IsBalanceType(c) ==
  \/ c.type = "enum" /\ c.mode = "balance"
  \/ c.type = "number"
  \/ c.type = "default"

\* the actual divergences (max deviation from the mean, over the mean) that
\* balance-type constraint c measures on gs; none where the mean is 0
ActualDivergences(c, gs) ==
  IF c.type = "enum" THEN
    {DivergenceOf([g \in DOMAIN gs |-> RInt(EnumCount(gs[g], elements, c.attributeId, v))],
                  Rat(ISumSeq([g \in DOMAIN gs |->
                                 EnumCount(gs[g], elements, c.attributeId, v)]), Len(gs))) :
       v \in EnumAllValues(gs, elements, c.attributeId)}
  ELSE IF c.type = "number" THEN
    LET avgs == [g \in DOMAIN gs |-> NumericAverage(gs[g], elements, c.attributeId)]
    IN  IF RLess(RZero, RSumSeq(avgs))
        THEN {DivergenceOf(avgs, RDiv(RSumSeq(avgs), RInt(Len(gs))))}
        ELSE {}
  ELSE
    IF TotalMembers(gs) > 0
    THEN {DivergenceOf([g \in DOMAIN gs |-> RInt(Len(gs[g]))], Rat(TotalMembers(gs), Len(gs)))}
    ELSE {}

WithinAllowed(c, gs) ==
  \A d \in ActualDivergences(c, gs) : RLeq(d, c.allowedDivergence)

(***************************************************************************)
(* C11 (SpecSwap).  The global penalty of every grouping is at least 0,    *)
(* and it is 0 when the constraint list is empty or when every constraint  *)
(* that takes part is a balance-type one whose actual divergence is within *)
(* its allowedDivergence.                                                  *)
(***************************************************************************)
C11_PenaltyNonNegativeZeroOnBalance ==
  /\ RLeq(RZero, PenaltyOf(groups))
  /\ constraints = <<>> => PenaltyOf(groups) = RZero
  /\ (\A k \in Penalised(groups) :
        IsBalanceType(constraints[k]) /\ WithinAllowed(constraints[k], groups))
       => PenaltyOf(groups) = RZero

\* a grouping with zero penalty under a balance constraint whose actual
\* divergence is positive but within the allowed one
C11_Witness ==
  /\ PenaltyOf(groups) = RZero
  /\ Penalised(groups) # {}
  /\ \A k \in Penalised(groups) :
       /\ IsBalanceType(constraints[k])
       /\ WithinAllowed(constraints[k], groups)
  /\ \E k \in Penalised(groups) :
       \E d \in ActualDivergences(constraints[k], groups) : RLess(RZero, d)

\* the optimize (non-mandatory) attractive constraints on a known attribute
OptimizeAttractive ==
  {k \in DOMAIN constraints :
     /\ constraints[k].type = "attractive"
     /\ ~constraints[k].mandatory
     /\ constraints[k].attributeId \in attributes}

\* two elements sharing a value under a are in different groups
SplitValue(a) ==
  \E i, j \in DOMAIN elements : SharePresent(i, j, a) /\ DifferentGroups(i, j)

(***************************************************************************)
(* C12 (SpecSwap).  Under a non-mandatory attractive constraint, whenever  *)
(* two elements sharing a value of the attribute are in different groups,  *)
(* the global penalty is strictly greater than 0.                          *)
(***************************************************************************)
C12_SplitAttractivePenalised ==
  \A k \in OptimizeAttractive :
    SplitValue(constraints[k].attributeId) => RLess(RZero, PenaltyOf(groups))

\* a grouping whose only constraint is an optimize attractive one, with a
\* team split over two groups
C12_Witness ==
  /\ Len(constraints) = 1
  /\ OptimizeAttractive = {1}
  /\ SplitValue(constraints[1].attributeId)
  /\ RLess(RZero, PenaltyOf(groups))

\* the largest minus the smallest group size
SizeSpread(gs) ==
  LET sizes == {Len(gs[g]) : g \in DOMAIN gs}
  IN  IMaxSet(sizes) - (CHOOSE m \in sizes : \A x \in sizes : m <= x)

\* the only constraint is a default one
DefaultOnly == Len(constraints) = 1 /\ constraints[1].type = "default"

C14_GroupCountGroups ==
  pc = "done" =>
    IF Len(elements) = 0 \/ groupCount <= 0
    THEN groups = <<>>
    ELSE /\ Len(groups) = groupCount
         /\ constraints = <<>> =>
              /\ SizeSpread(groups) <= 1
              /\ TotalMembers(groups) = Len(elements)

\* a round-robin return with unequal group sizes
C14_Witness ==
  /\ pc = "done"
  /\ constraints = <<>>
  /\ groupCount = MaxGroups
  /\ Len(groups) = groupCount
  /\ SizeSpread(groups) = 1
  /\ Len(elements) > MaxGroups

\* the members of the input grouping that performSwaps may exchange
SwappableInput == MemberIds(inputGroups) \cap NonMandatoryElements(elements, constraints)

(***************************************************************************)
(* C15 (SpecSwap).  At every point of performSwaps, hence on return, the   *)
(* grouping differs from the input only if its penalty is strictly lower   *)
(* than the input's (a swap of equal or higher penalty is discarded); on   *)
(* an input of penalty 0, or with fewer than two swappable elements, the   *)
(* grouping stays the input, whatever numSwaps is.                         *)
(***************************************************************************)
C15_ChangedOnlyIfStrictlyLower ==
  /\ groups # inputGroups => RLess(PenaltyOf(groups), PenaltyOf(inputGroups))
  /\ (PenaltyOf(inputGroups) = RZero \/ Cardinality(SwappableInput) < 2) =>
       groups = inputGroups

\* a call that tried swaps between groups on an input of penalty 0 and
\* returned it unchanged
C15_Witness ==
  /\ pc = "done"
  /\ swapAttempt = numSwaps
  /\ numSwaps > 0
  /\ PenaltyOf(inputGroups) = RZero
  /\ Cardinality(SwappableInput) >= 2
  /\ \E g \in DOMAIN inputGroups : \E h \in DOMAIN inputGroups :
       /\ g # h
       /\ \E m \in DOMAIN inputGroups[g] : inputGroups[g][m] \in SwappableInput
       /\ \E m \in DOMAIN inputGroups[h] : inputGroups[h][m] \in SwappableInput
  /\ groups = inputGroups

\* the checker finds an issue in the stored groups of distribution d
StoredIssues(st, d) ==
  ~checkConstraintSatisfaction(st.distributions[d].groups,
                               st.distributions[d].snapshotElements,
                               st.distributions[d].constraints,
                               AttributeIds(st.distributions[d].snapshotAttributes))

\* call c of handleDragEnd finishes in this step
Finishes(c) == c \in calls /\ c.phase = "check" /\ calls' = calls \ {c}

(***************************************************************************)
(* C16 (SpecDb).  A manual move to a group of the stored distribution      *)
(* always takes effect: when its handler finishes, the element is a member *)
(* of the target group and of no other group of the stored distribution,   *)
(* the handler reports the move as done, and it warns exactly when the     *)
(* checker finds an issue in the stored post-move groups, whatever the     *)
(* constraint violated.                                                    *)
(***************************************************************************)
C16_MoveTakesEffect ==
  [][\A c \in calls : Finishes(c) =>
       /\ report'.kind = "moved"
       /\ GroupsOf(store'.distributions[c.dist].groups, c.element) = {c.group.index}
       /\ Occurrences(store'.distributions[c.dist].groups, c.element) = 1
       /\ report'.warned = StoredIssues(store', c.dist)]_vars

\* a move that broke the mandatory constraint of its distribution has been
\* stored and reported with a warning
C16_ViolatingMoveStored ==
  /\ report.kind = "moved"
  /\ report.warned
  /\ calls = {}
  /\ pc = "idle"
  /\ MandatoryConstraints(store.distributions[report.dist].constraints) # <<>>
  /\ GroupsOf(store.distributions[report.dist].groups, report.element) = {report.group}
  /\ StoredIssues(store, report.dist)

\* no element id occurs twice in the member lists of a grouping
NoDuplicates(gs) == \A id \in MemberIds(gs) : Occurrences(gs, id) = 1

(***************************************************************************)
(* C17 (SpecDb).  No element id occurs more than once across the member    *)
(* lists of a grouping: not in the groups either generator is building or  *)
(* has returned, and not in the groups of a stored distribution after any  *)
(* sequence of manual moves and regenerations.                             *)
(***************************************************************************)
C17_NoDuplicateMembership ==
  /\ NoDuplicates(groups)
  /\ \A d \in DOMAIN store.distributions : NoDuplicates(store.distributions[d].groups)

\* a distribution of two members in one group that has been regenerated and
\* in which a member was then moved to the other member's group
C17_Witness ==
  /\ pc = "idle"
  /\ calls = {}
  /\ report.kind = "moved"
  /\ store.distributions # <<>>
  /\ store.distributions[report.dist].stamp > 0
  /\ \E g \in DOMAIN store.distributions[report.dist].groups :
       /\ g = report.group
       /\ Len(store.distributions[report.dist].groups[g]) > 1

(***************************************************************************)
(* C18 (SpecDb).  The snapshotElements and snapshotAttributes of a stored  *)
(* distribution never change: no step of an element or attribute           *)
(* operation of the session, of a manual move, of a rename or of a         *)
(* regeneration alters them.                                               *)
(***************************************************************************)
C18_SnapshotsFrozen ==
  [][\A d \in DOMAIN store.distributions :
       /\ d \in DOMAIN store'.distributions
       /\ store'.distributions[d].snapshotElements = store.distributions[d].snapshotElements
       /\ store'.distributions[d].snapshotAttributes =
            store.distributions[d].snapshotAttributes]_vars

\* a regenerated distribution whose snapshots differ from the session's
\* elements and attributes, which were edited after it was stored
C18_Witness ==
  /\ pc = "idle"
  /\ store.distributions # <<>>
  /\ store.distributions[1].stamp > 0
  /\ store.distributions[1].snapshotElements # <<>>
  /\ store.distributions[1].snapshotElements # store.elements
  /\ store.distributions[1].snapshotAttributes # store.attributes

(***************************************************************************)
(* C20 (SpecDb).  A step that deletes attribute a leaves no attribute      *)
(* record of id a, no a in the session's attributes list and no element    *)
(* of the session storing a value under a, whatever value it held; the     *)
(* elements' values under the other attributes are unchanged.              *)
(***************************************************************************)
C20_DeleteAttributeRemovesEveryValue ==
  [][\A a \in AttrIds :
       (a \in AttributeIds(store.attributes) /\ a \notin AttributeIds(store'.attributes)) =>
         /\ \A k \in DOMAIN store'.sessionAttributes : store'.sessionAttributes[k] # a
         /\ DOMAIN store'.elements = DOMAIN store.elements
         /\ \A i \in DOMAIN store'.elements :
              /\ ~Defined(store'.elements[i].attributes[a])
              /\ \A b \in AttrIds \ {a} :
                   store'.elements[i].attributes[b] = store.elements[i].attributes[b]]_vars

\* an element still stores a value under the id of a deleted attribute
C20_LeftoverValue ==
  \E a \in store.retired : \E i \in DOMAIN store.elements :
    Defined(store.elements[i].attributes[a])

\* the constraints whose attribute is in the attribute list (a default
\* constraint has none)
LiveConstraints ==
  SelectSeq(constraints, LAMBDA c : c.type = "default" \/ FindAttribute(attributes, c.attributeId))

\* a stale constraint raises nothing and counts for nothing: the pre-check
\* gives the verdict it gives without it, and the penalty and the checker's
\* verdict on the current groups are those of the live constraints
StaleConstraintSkipped ==
  /\ validateMandatoryConstraints(elements, groupCount, constraints, attributes) =
       validateMandatoryConstraints(elements, groupCount, LiveConstraints, attributes)
  /\ PenaltyOf(groups) = calculateGlobalPenalty(groups, elements, LiveConstraints, attributes)
  /\ checkConstraintSatisfaction(groups, elements, constraints, attributes) =
       checkConstraintSatisfaction(groups, elements, LiveConstraints, attributes)

(***************************************************************************)
(* C19 (SpecStale).  A constraint whose attributeId matches no attribute   *)
(* of the attribute list is skipped: no pre-check rejection, no penalty,   *)
(* no checker issue, and generation treats as mandatory-bound (placed by   *)
(* the solver instead of the greedy fill, kept out of the swaps) exactly   *)
(* the elements that are so without the constraint.                        *)
(***************************************************************************)
C19_StaleConstraintAsIfAbsent ==
  /\ StaleConstraintSkipped
  /\ pc = "place" => toPlace \subseteq MandatoryElements(elements, LiveConstraints)
  /\ pc = "swap" =>
       \A id \in NonMandatoryElements(elements, LiveConstraints) :
         \E p \in SwappablePositions(groups) : groups[p[1]][p[2]] = id

\* generate has returned all elements in one group and none in the other
\* although the only live constraint balances the group sizes: the
\* elements carry a value under the stale mandatory constraint's attribute
C19_StaleBoundElementsUnbalanced ==
  /\ pc = "done"
  /\ LiveConstraints = <<DefaultConstraint(Quarter)>>
  /\ MandatoryConstraints(constraints) # <<>>
  /\ Len(elements) = 2
  /\ groupCount = 2
  /\ SizeSpread(groups) = 2

(***************************************************************************)
(* C21 (SpecLive).  Every call of generate terminates, returning groups or *)
(* raising the error: the solver never starts more than maxAttempts        *)
(* attempts and holds at most |elements| elements to place, the fill holds *)
(* at most |elements| elements, the swap loop makes at most                *)
(* min(1000, 10 * |elements|) iterations, and the call eventually reaches  *)
(* its return or its throw.                                                *)
(***************************************************************************)
C21_GenerateTerminates ==
  /\ [](/\ attempt <= maxAttempts
        /\ Cardinality(toPlace) + TotalMembers(groups) <= Len(elements)
        /\ Cardinality(remaining) + TotalMembers(groups) <= Len(elements)
        /\ swapAttempt <= numSwaps
        /\ numSwaps <= SwapCap
        /\ numSwaps <= SwapsPerElement * Len(elements))
  /\ <>(pc \in {"done", "error"})

\* a call that returned all its elements after a failed attempt and a retry
C21_Witness ==
  /\ pc = "done"
  /\ attempt > 0
  /\ TotalMembers(groups) = Len(elements)

C23_MandatoryElementsStay ==
  \A g \in DOMAIN inputGroups :
    /\ Len(groups[g]) = Len(inputGroups[g])
    /\ \A m \in DOMAIN inputGroups[g] :
         inputGroups[g][m] \in MandatoryElements(elements, constraints)
           => groups[g][m] = inputGroups[g][m]

\* the loop has changed the grouping around an element it must not move
C23_Witness ==
  /\ pc = "done" /\ swapAttempt > 0 /\ groups # inputGroups
  /\ MemberIds(inputGroups) \cap MandatoryElements(elements, constraints) # {}

\* the page has computed the constraint check of the grouping it shows
Checked == report.kind = "checked"

\* the one actual divergence a default or number constraint measures on the
\* grouping shown
ShownDivergence == CHOOSE d \in ActualDivergences(constraints[1], groups) : TRUE

(***************************************************************************)
(* C24 (SpecCheck): for a default constraint with balanceGroupSizes on a   *)
(* grouping with at least one member, the checker reports the group-size   *)
(* issue exactly when the actual divergence max|size - ideal| / ideal is   *)
(* greater than allowedDivergence and the two map to different levels.     *)
(***************************************************************************)
C24_SizeIssueIffRawAndLevel ==
  (Checked /\ DefaultOnly /\ TotalMembers(groups) > 0) =>
    (report.warned <=>
       /\ RLess(constraints[1].allowedDivergence, ShownDivergence)
       /\ divergenceValueToLevel(ShownDivergence) #
            divergenceValueToLevel(constraints[1].allowedDivergence))

\* the raw ratio exceeds the threshold, the levels are equal, nothing is
\* reported
C24_Witness ==
  /\ Checked /\ DefaultOnly /\ TotalMembers(groups) > 0
  /\ RLess(constraints[1].allowedDivergence, ShownDivergence)
  /\ ~report.warned

\* the one constraint is an enum balance or a number balanceAverage constraint
EpsilonChecked ==
  /\ Len(constraints) = 1
  /\ \/ constraints[1].type = "enum" /\ constraints[1].mode = "balance"
     \/ constraints[1].type = "number"

\* every actual divergence the constraint measures on the grouping shown
\* maps to the level of its allowedDivergence
SameLevelAsAllowed ==
  /\ ActualDivergences(constraints[1], groups) # {}
  /\ \A d \in ActualDivergences(constraints[1], groups) :
       divergenceValueToLevel(d) = divergenceValueToLevel(constraints[1].allowedDivergence)

(***************************************************************************)
(* C25 (SpecCheck): for an enum balance or a number balanceAverage         *)
(* constraint, whenever the actual divergence maps to the same level as    *)
(* allowedDivergence the checker reports no issue.                         *)
(***************************************************************************)
C25_SameLevelPasses ==
  (Checked /\ EpsilonChecked /\ SameLevelAsAllowed) => ~report.warned

\* an issue is reported although the actual divergence shows as the level of
\* allowedDivergence
C25_SameLevelFlagged ==
  Checked /\ EpsilonChecked /\ SameLevelAsAllowed /\ report.warned

\* |value of level - x|
LevelDistance(level, x) == RAbs(RSub(DIVERGENCE_LEVELS[level + 1], x))

(***************************************************************************)
(* C26 (SpecCheck): divergenceValueToLevel(x), for the allowedDivergence x *)
(* the checker maps, is a level of 0.10, 0.25, 0.50, 0.75, 0.90 at the     *)
(* least absolute distance to x, and of two levels at the same distance    *)
(* the earlier one; mapping the value of a level gives that level back;    *)
(* the level does not decrease when x grows.                               *)
(***************************************************************************)
C26_NearestLevelEarlierOnTie ==
  DefaultOnly =>
    LET x == constraints[1].allowedDivergence
        level == divergenceValueToLevel(x)
    IN  /\ level \in 0..4
        /\ \A other \in 0..4 :
             /\ RLeq(LevelDistance(level, x), LevelDistance(other, x))
             /\ other < level => RLess(LevelDistance(level, x), LevelDistance(other, x))
        /\ \A l \in 0..4 : divergenceValueToLevel(divergenceLevelToValue(l)) = l
        /\ \A y \in DivergenceGrid \cup ActualDivergences(constraints[1], groups) :
             RLeq(x, y) => level <= divergenceValueToLevel(y)

\* the checker has mapped an allowedDivergence halfway between two levels
C26_Witness ==
  /\ Checked /\ DefaultOnly /\ TotalMembers(groups) > 0
  /\ \E l \in 0..3 :
       /\ LevelDistance(l, constraints[1].allowedDivergence) =
            LevelDistance(l + 1, constraints[1].allowedDivergence)
       /\ divergenceValueToLevel(constraints[1].allowedDivergence) = l

\* the one constraint is an optimize constraint of an intruder type
IntruderChecked ==
  /\ Len(constraints) = 1
  /\ \/ constraints[1].type = "enum" /\ constraints[1].mode = "exclude"
     \/ constraints[1].type \in {"attractive", "repulsive"}
  /\ ~constraints[1].mandatory

(***************************************************************************)
(* C27 (SpecCheck): the penalty and the checker agree on the optimize      *)
(* constraints of the intruder types (enum exclude, attractive,            *)
(* repulsive): the penalty of the grouping shown is 0 exactly when the     *)
(* checker reports no issue for it.                                        *)
(***************************************************************************)
C27_PenaltyZeroIffNoIssue ==
  (Checked /\ IntruderChecked) =>
    (AttributePenalty(constraints[1], groups, elements) = RZero <=> ~report.warned)

\* a grouping with a penalty above 0 for which the checker reports nothing
C27_PenalisedUnreported ==
  /\ Checked /\ IntruderChecked
  /\ RLess(RZero, AttributePenalty(constraints[1], groups, elements))
  /\ ~report.warned

\* call c writes its groups in this step
Writes(c) ==
  /\ c \in calls /\ c.phase = "update"
  /\ calls' = (calls \ {c}) \cup {[c EXCEPT !.phase = "check"]}

\* c and other are calls in flight moving two elements of one distribution
\* as generated once
Overlapping(c, other) ==
  /\ c \in calls /\ other \in calls /\ c # other
  /\ c.dist = other.dist /\ c.element # other.element
  /\ c.group.stamp = other.group.stamp

\* the stored groups of the distribution of call c hold its element in its
\* target group and nowhere else
MoveStored(st, c) ==
  GroupsOf(st.distributions[c.dist].groups, c.element) = {c.group.index}

(***************************************************************************)
(* C28 (SpecDb): no manual move is lost.  When two updateGroupMembership   *)
(* calls on one distribution, for two different elements, are in flight    *)
(* together, then after the later of their two writes the stored groups    *)
(* hold each of the two elements in the group requested for it.            *)
(***************************************************************************)
C28_NoMoveLost ==
  [][\A c, other \in calls :
       (Overlapping(c, other) /\ other.phase = "check" /\ Writes(c)) =>
         /\ MoveStored(store', c)
         /\ MoveStored(store', other)]_vars

\* both calls have written and one of the two elements is not in the group
\* it was moved to
C28_MoveLost ==
  \E c, other \in calls :
    /\ Overlapping(c, other)
    /\ c.phase = "check" /\ other.phase = "check"
    /\ store.distributions[c.dist].stamp = c.group.stamp
    /\ ~MoveStored(store, other)

\* every member id of the groups of a distribution is the id of one of its
\* snapshot elements
SelfContained(dist) == MemberIds(dist.groups) \subseteq ElementIds(dist.snapshotElements)

(***************************************************************************)
(* C29 (SpecFrom): a stored distribution is self-contained.  After any     *)
(* sequence of element additions and deletions, creations, creations from  *)
(* an existing distribution, regenerations and manual moves, every member  *)
(* id in the groups of a stored distribution is the id of an element of    *)
(* that distribution's snapshotElements.                                   *)
(***************************************************************************)
C29_SelfContained ==
  \A d \in DOMAIN store.distributions : SelfContained(store.distributions[d])

\* a distribution created from another one holds a member that its own
\* snapshot does not contain
C29_ForeignMember ==
  /\ pc = "idle"
  /\ Len(store.distributions) > MaxDistributions
  /\ \E d \in DOMAIN store.distributions : ~SelfContained(store.distributions[d])

\* the orders in which a shuffle can list the ids of S
Orders(S) ==
  {order \in [1..Cardinality(S) -> S] : \A i, j \in DOMAIN order : i # j => order[i] # order[j]}

RECURSIVE PlaceableInOrder(_, _)
\* some choice of accepting groups places the ids of order, one after the
\* other, on top of the grouping gs
PlaceableInOrder(gs, order) ==
  \/ order = <<>>
  \/ \E gi \in DOMAIN gs :
       /\ ~wouldViolateMandatoryConstraintsOnPlacement(
             order[1], gi, gs, elements, MandatoryConstraints(constraints), attributes)
       /\ PlaceableInOrder(WithMember(gs, gi, order[1]), Tail(order))

(***************************************************************************)
(* C30 (Spec): retrying can succeed on every satisfiable input.  If some   *)
(* assignment of the elements to groupCount groups satisfies all mandatory *)
(* constraints, then in a placement attempt, for every shuffled order of   *)
(* the mandatory-bound elements, some sequence of group choices places     *)
(* every one of them.                                                      *)
(***************************************************************************)
C30_EveryOrderPlaceable ==
  (pc = "place" /\ Satisfiable) =>
    \A order \in Orders(MandatoryElements(elements, constraints)) :
      PlaceableInOrder(EmptyGroups(groupCount), order)

\* the solver has used up its attempts on an input that an assignment
\* satisfies
C30_SatisfiableNeverPlaced ==
  /\ pc = "error" /\ retryable /\ attempt = maxAttempts
  /\ Satisfiable
====
